---------------------------- MODULE Spec2Model ----------------------------
(***************************************************************************)
(* Water-tank controller (src/main.py): the SystemController's actuator    *)
(* interlock, the day-of-week scheduler, the no-flow shutoff and the main  *)
(* control loop, with the BLE command handler and the flow-sensor          *)
(* interrupt as the two other contexts.                                    *)
(*                                                                         *)
(* The specifications share the variables:                                 *)
(*   Spec     every handler (a loop iteration, a BLE command, a sensor     *)
(*            edge) runs to completion before the next one starts;         *)
(*   SpecIrq  the loop iteration is split at its statements, and the BLE   *)
(*            handler (run to completion by the interpreter's scheduler)   *)
(*            and the sensor interrupt may run between any two of them;    *)
(*   SpecSchedule  one loop iteration at each of a range of clock times;   *)
(*   SpecTotals    Spec from stored totals, with pulses waiting;           *)
(*   SpecConfig    Spec with the SET_SCHEDULE commands;                    *)
(*   SpecExc       the statements of SpecIrq with exceptions in a pass;    *)
(*   SpecLive      Spec with the loop and the clock kept going (fairness); *)
(*   SpecReplace   SpecIrq with check_scheduled_run split at its           *)
(*                 statements and SET_SCHEDULE commands in between;        *)
(*   SpecNotify    SpecExc with a central connecting and disconnecting;    *)
(*   SpecFlow      one call of calculate_flow for a range of arguments;    *)
(*   SpecBoot      boot.py and the OTA updater (src/boot.py, src/ota.py)   *)
(*                 up to the start of main.py, over resets.                *)
(***************************************************************************)
EXTENDS Integers, Sequences, FiniteSets, TLC

VARIABLES
    now,                \* time.time(): seconds since the 2000-01-01 epoch
    t_boot,             \* the clock when main_loop was entered
    ctl,                \* the SystemController's fields (self.*)
    pulses_total,       \* FlowSensor.pulses_total
    lock,               \* the _thread lock shared with the FlowSensor
    flow_liters_total,  \* ConfigManager.flow_liters_total, a rational <<n, d>>
    conn_handle,        \* BLEController.conn_handle ("None" or 1)
    last_second,        \* main_loop's local
    last_save_time,     \* main_loop's local
    last_notify_time,   \* main_loop's local
    command,            \* _ble_irq: the parts of the command being handled
                        \* (<<>> when the handler is not running)
    response,           \* _ble_irq: what process_ble_command returned for it
    pre,                \* history: self.* as that command found it
    pc,                 \* SpecIrq: the loop iteration's position
    loc,                \* SpecIrq: the loop iteration's locals
    fires,              \* history: the timestamps at which the Scheduler
                        \* opened the valve
    session,            \* history: who opened the valve that is open now
                        \* ("sched", "cmd"; "none" while it is closed), and
                        \* whether a loop pass has since found no flow
    edges,              \* history: sensor edges delivered so far
    flash,              \* the files of the device's flash filesystem
    remote              \* the repository GITHUB_URL serves

vars == <<now, t_boot, ctl, pulses_total, lock, flow_liters_total,
          conn_handle, last_second, last_save_time, last_notify_time,
          command, response, pre, pc, loc, fires, session, edges,
          flash, remote>>

---------------------------------------------------------------------------
(* Bounds of the exploration *)

\* seconds the clock may advance one by one after each whole-minute position
MaxSeconds == 8
\* whole-minute delays the clock may make
MaxMinutes == 1
\* sensor edges delivered in one behaviour
MaxEdges == 1

---------------------------------------------------------------------------
(* Program constants *)

TIMEZONE_OFFSET_HOURS == -4
K_FACTOR == 450
FLOW_STOP_TIMEOUT == 5
SAVE_INTERVAL == 60
NOTIFY_INTERVAL == 5

DEFAULT_WEEKEND == << <<8, 0>>, <<12, 0>>, <<19, 0>> >>
DEFAULT_WEEKDAY == << <<7, 0>>, <<12, 0>>, <<19, 0>> >>

---------------------------------------------------------------------------
(* Rationals <<n, d>>, d > 0, in lowest terms: the values of the floats    *)
(* the flow arithmetic produces (rounding apart).                          *)

RECURSIVE Gcd(_, _)
Gcd(a, b) == IF b = 0 THEN a ELSE Gcd(b, a % b)

Rat(n, d) == LET g == Gcd(IF n < 0 THEN -n ELSE n, d)
             IN  IF n = 0 THEN <<0, 1>> ELSE <<n \div g, d \div g>>

RatAdd(x, y) == Rat(x[1] * y[2] + y[1] * x[2], x[2] * y[2])
RatLess(x, y) == x[1] * y[2] < y[1] * x[2]

---------------------------------------------------------------------------
(* The clock: time.localtime() of time.time() + offset.  The epoch,        *)
(* 2000-01-01, was a Saturday; localtime's weekday is 0 for Monday.        *)

LocalSeconds(t) == t + TIMEZONE_OFFSET_HOURS * 3600

get_current_time(t) ==
    LET local_seconds == LocalSeconds(t)
    IN  [hour    |-> (local_seconds \div 3600) % 24,
         minute  |-> (local_seconds \div 60) % 60,
         second  |-> local_seconds % 60,
         weekday |-> ((local_seconds \div 86400) + 5) % 7]

\* the epoch second at which the local clock of day `day` shows h:m:s
EpochOf(day, h, m, s) ==
    day * 86400 + h * 3600 + m * 60 + s - TIMEZONE_OFFSET_HOURS * 3600

---------------------------------------------------------------------------
(* FlowSensor *)

\* calculate_flow dividing in whole numbers
calculate_flow_floor(pulses, seconds_passed) ==
    LET liters_added == Rat(pulses \div K_FACTOR, 1)
        flow_rate_lpm ==
            IF seconds_passed > 0 /\ pulses > 0
            THEN Rat(pulses * 60, seconds_passed * K_FACTOR)
            ELSE <<0, 1>>
    IN  [flow_rate_lpm |-> flow_rate_lpm, liters_added |-> liters_added]

\* calculate_flow taking every interval for one second: the rate is zero
\* only for zero pulses
calculate_flow_ignoring_seconds(pulses, seconds_passed) ==
    LET liters_added == Rat(pulses, K_FACTOR)
        flow_rate_lpm ==
            IF pulses > 0 THEN Rat(pulses * 60, K_FACTOR) ELSE <<0, 1>>
    IN  [flow_rate_lpm |-> flow_rate_lpm, liters_added |-> liters_added]

\* calculate_flow(pulses, seconds_passed): (flow_rate_lpm, liters_added)
calculate_flow(pulses, seconds_passed) ==
    LET liters_added == Rat(pulses, K_FACTOR)
        flow_rate_lpm ==
            IF seconds_passed > 0 /\ pulses > 0
            THEN Rat(pulses * 60, seconds_passed * K_FACTOR)
            ELSE <<0, 1>>
    IN  [flow_rate_lpm |-> flow_rate_lpm, liters_added |-> liters_added]

\* The floats of the ESP32 firmware are IEEE single precision: a float is
\* <<m, e>> for m * 2^e with 2^23 <= m < 2^24, and <<0, 0>> for 0.0.  Every
\* operation rounds its exact result to the nearest float, ties to even.
RECURSIVE Pow2(_)
Pow2(n) == IF n = 0 THEN 1 ELSE 2 * Pow2(n - 1)

\* m with `rest` out of `whole` left over, rounded
F32Round(m, e, rest, whole) ==
    LET up == 2 * rest > whole \/ (2 * rest = whole /\ m % 2 = 1)
        m1 == IF up THEN m + 1 ELSE m
    IN  IF m1 = Pow2(24) THEN <<Pow2(23), e + 1>> ELSE <<m1, e>>

\* the remaining `bits` bits of the quotient, r < d the remainder so far
RECURSIVE F32DivBits(_, _, _, _, _)
F32DivBits(r, d, m, e, bits) ==
    IF bits = 0 THEN F32Round(m, e, r, d)
    ELSE IF 2 * r >= d THEN F32DivBits(2 * r - d, d, 2 * m + 1, e, bits - 1)
                       ELSE F32DivBits(2 * r, d, 2 * m, e, bits - 1)

RECURSIVE F32DivScaled(_, _, _)
F32DivScaled(n, d, e) ==
    IF n < d THEN F32DivScaled(2 * n, d, e - 1)
    ELSE IF n >= 2 * d THEN F32DivScaled(n, 2 * d, e + 1)
    ELSE F32DivBits(n - d, d, 1, e - 23, 23)

\* n / d for whole numbers n >= 0 and d > 0 that floats hold exactly
F32Div(n, d) == IF n = 0 THEN <<0, 0>> ELSE F32DivScaled(n, d, 0)

\* a * b, the 48-bit product taken in halves of 12 bits
F32Mul(a, b) ==
    IF a[1] = 0 \/ b[1] = 0 THEN <<0, 0>>
    ELSE LET h1 == a[1] \div 4096  l1 == a[1] % 4096
             h2 == b[1] \div 4096  l2 == b[1] % 4096
             mid == h1 * l2 + l1 * h2
             low == (mid % 4096) * 4096 + l1 * l2
             hi == h1 * h2 + mid \div 4096 + low \div Pow2(24)
             lo == low % Pow2(24)
         IN  IF hi >= Pow2(23)
             THEN F32Round(hi, a[2] + b[2] + 24, lo, Pow2(24))
             ELSE F32Round(2 * hi + lo \div Pow2(23), a[2] + b[2] + 23,
                           lo % Pow2(23), Pow2(23))

\* the float x is the whole number n
F32Is(x, n) ==
    IF n = 0 THEN x[1] = 0
    ELSE /\ x[1] # 0
         /\ IF x[2] >= 0 THEN x[1] * Pow2(x[2]) = n
                         ELSE x[1] = n * Pow2(-x[2])

\* calculate_flow as the firmware evaluates it, in single precision
calculate_flow_single(pulses, seconds_passed) ==
    LET liters_added == F32Div(pulses, K_FACTOR)
        flow_rate_lpm ==
            IF seconds_passed > 0 /\ pulses > 0
            THEN F32Mul(F32Div(pulses, seconds_passed), F32Div(60, K_FACTOR))
            ELSE <<0, 0>>
    IN  [flow_rate_lpm |-> flow_rate_lpm, liters_added |-> liters_added]

\* the handler acquiring the lock as read_and_reset_pulses does, waiting
\* for it
irq_handler_waiting ==
    /\ command = <<>>
    /\ edges < MaxEdges
    /\ lock = "free"
    /\ edges' = edges + 1
    /\ pulses_total' = pulses_total + 1
    /\ UNCHANGED <<now, t_boot, ctl, lock, flow_liters_total, conn_handle,
                   last_second, last_save_time, last_notify_time, command,
                   response, pre, pc, loc, fires, session, flash, remote>>

\* the sensor's rising edge: the counter moves only if the lock is free
irq_handler ==
    /\ command = <<>>
    /\ edges < MaxEdges
    /\ edges' = edges + 1
    /\ pulses_total' = IF lock = "free" THEN pulses_total + 1 ELSE pulses_total
    /\ UNCHANGED <<now, t_boot, ctl, lock, flow_liters_total, conn_handle,
                   last_second, last_save_time, last_notify_time, command,
                   response, pre, pc, loc, fires, session, flash, remote>>

---------------------------------------------------------------------------
(* SystemController: the actuators *)

\* set_motor without its safety check
set_motor_unguarded(c, state) ==
    LET target_state == IF state THEN 1 ELSE 0
    IN  [c EXCEPT !.motor_pin = target_state,
                  !.motor_on = (target_state = 1)]

\* set_motor closing an open valve and going on, as set_valve does for the
\* motor
set_motor_closing_valve(c, state) ==
    LET c1 == IF state /\ c.valve_on
              THEN [c EXCEPT !.valve_pin = 0, !.valve_on = FALSE,
                             !.scheduled_run_active = FALSE]
              ELSE c
        target_state == IF state THEN 1 ELSE 0
    IN  [c1 EXCEPT !.motor_pin = target_state,
                   !.motor_on = (target_state = 1)]

set_motor(c, state) ==
    IF state /\ c.valve_on
    THEN c
    ELSE LET target_state == IF state THEN 1 ELSE 0
         IN  [c EXCEPT !.motor_pin = target_state,
                       !.motor_on = (target_state = 1)]

\* set_valve without the motor shutoff
set_valve_keeping_motor(c, state) ==
    LET target_state == IF state THEN 1 ELSE 0
        c2 == [c EXCEPT !.valve_pin = target_state,
                        !.valve_on = (target_state = 1)]
    IN  IF ~c2.valve_on
        THEN [c2 EXCEPT !.scheduled_run_active = FALSE]
        ELSE c2

\* set_valve stopping the motor whatever the requested state
set_valve_always_stopping_motor(c, state) ==
    LET c1 == IF c.motor_on THEN set_motor(c, FALSE) ELSE c
        c2 == [c1 EXCEPT !.valve_pin = IF state THEN 1 ELSE 0,
                         !.valve_on = state]
    IN  IF ~c2.valve_on THEN [c2 EXCEPT !.scheduled_run_active = FALSE] ELSE c2

\* set_valve leaving scheduled_run_active as it is
set_valve_keeping_flag(c, state) ==
    LET c1 == IF state /\ c.motor_on THEN set_motor(c, FALSE) ELSE c
    IN  [c1 EXCEPT !.valve_pin = IF state THEN 1 ELSE 0, !.valve_on = state]

set_valve(c, state) ==
    LET c1 == IF state /\ c.motor_on THEN set_motor(c, FALSE) ELSE c
        target_state == IF state THEN 1 ELSE 0
        c2 == [c1 EXCEPT !.valve_pin = target_state,
                         !.valve_on = (target_state = 1)]
    IN  IF ~c2.valve_on
        THEN [c2 EXCEPT !.scheduled_run_active = FALSE]
        ELSE c2

---------------------------------------------------------------------------
(* SystemController: the scheduler *)

\* Python's `x in list`
In(x, list) == \E i \in 1..Len(list) : list[i] = x

\* check_scheduled_run counting Saturday as a weekday
check_scheduled_run_sat_weekday(c, current_hour, current_minute, current_second, day_of_week) ==
    IF c.valve_on \/ current_second # 0
    THEN FALSE
    ELSE LET is_weekday == 0 <= day_of_week /\ day_of_week <= 5
             is_weekend == 5 <= day_of_week /\ day_of_week <= 6
             current_time == <<current_hour, current_minute>>
             target_schedule == IF is_weekday THEN c.weekday_schedule
                                ELSE IF is_weekend THEN c.weekend_schedule
                                ELSE <<>>
         IN  target_schedule # <<>> /\ In(current_time, target_schedule)

\* check_scheduled_run matching the minute at any second
check_scheduled_run_any_second(c, current_hour, current_minute, current_second, day_of_week) ==
    IF c.valve_on
    THEN FALSE
    ELSE LET is_weekday == 0 <= day_of_week /\ day_of_week <= 4
             is_weekend == 5 <= day_of_week /\ day_of_week <= 6
             current_time == <<current_hour, current_minute>>
             target_schedule == IF is_weekday THEN c.weekday_schedule
                                ELSE IF is_weekend THEN c.weekend_schedule
                                ELSE <<>>
         IN  target_schedule # <<>> /\ In(current_time, target_schedule)

\* check_scheduled_run catching up on a slot whose second 0 went by
check_scheduled_run_catch_up(c, current_hour, current_minute, current_second, day_of_week) ==
    IF c.valve_on \/ current_second > 1
    THEN FALSE
    ELSE LET is_weekday == 0 <= day_of_week /\ day_of_week <= 4
             is_weekend == 5 <= day_of_week /\ day_of_week <= 6
             current_time == <<current_hour, current_minute>>
             target_schedule == IF is_weekday THEN c.weekday_schedule
                                ELSE IF is_weekend THEN c.weekend_schedule
                                ELSE <<>>
         IN  target_schedule # <<>> /\ In(current_time, target_schedule)

check_scheduled_run(c, current_hour, current_minute, current_second, day_of_week) ==
    IF c.valve_on \/ current_second # 0
    THEN FALSE
    ELSE LET is_weekday == 0 <= day_of_week /\ day_of_week <= 4
             is_weekend == 5 <= day_of_week /\ day_of_week <= 6
             current_time == <<current_hour, current_minute>>
             \* None and the empty list are both falsy
             target_schedule == IF is_weekday THEN c.weekday_schedule
                                ELSE IF is_weekend THEN c.weekend_schedule
                                ELSE <<>>
         IN  target_schedule # <<>> /\ In(current_time, target_schedule)

---------------------------------------------------------------------------
(* History bookkeeping *)

NoSession == [by |-> "none", polled |-> FALSE]

\* the session after `who` took the actuators from c to c2
SessionAfter(c, c2, who) ==
    IF ~c2.valve_on THEN NoSession
    ELSE IF ~c.valve_on THEN [by |-> who, polled |-> FALSE]
    ELSE session

---------------------------------------------------------------------------
(* SystemController: the BLE command handler.  `parts` is the decoded,     *)
(* upper-cased command split at its blanks (command.split(' ', 2)).        *)

Commands == { <<"VALVE", "ON">>, <<"VALVE", "OFF">>, <<"VALVE", "OPEN">>,
              <<"MOTOR", "ON">>, <<"MOTOR", "OFF">>, <<"MOTOR", "START">>,
              <<"VALVE">>, <<"RESET_FLOW">>, <<"STATUS">>, <<"PING">>,
              <<"">> }

\* save_log keeping the old total when the file cannot be written
save_log_after_write(total_liters, written) ==
    IF written THEN total_liters ELSE flow_liters_total

\* ConfigManager.save_log(total_liters): the total is set before the file
\* is written; `written` is whether the write succeeds (the value returned,
\* which no caller reads)
save_log(total_liters, written) == total_liters

\* A SET_SCHEDULE argument as ujson.loads sees it: text that is not JSON, a
\* JSON value that is not a list, or a list of entries; an entry is its
\* items and whether all of them are integers.
Entry(items) == [items |-> items, ints |-> TRUE]
Payload(entries) == [json |-> "list", entries |-> entries]
NotJson == [json |-> "invalid", entries |-> <<>>]
NotAList == [json |-> "object", entries |-> <<>>]

\* the format test of lines 444-445
ValidFormat(new_schedule) ==
    /\ new_schedule.json = "list"
    /\ \A i \in 1..Len(new_schedule.entries) :
          /\ Len(new_schedule.entries[i].items) = 2
          /\ new_schedule.entries[i].ints

\* the list of [h, m] lists that a well-formed argument decodes to
Decoded(new_schedule) ==
    [i \in 1..Len(new_schedule.entries) |-> new_schedule.entries[i].items]

\* ConfigManager.save_config({key: table}): the dictionary is updated, then
\* the file is written; `written` is whether the write succeeds
save_config(c, key, table, written) ==
    LET c1 == [c EXCEPT !.config[key] = table]
    IN  IF written
        THEN [c |-> [c1 EXCEPT !.file = c1.config], saved |-> TRUE]
        ELSE [c |-> c1, saved |-> FALSE]

\* ConfigManager.load_config: the keys of the file replace the dictionary's
load_config(c) == [c EXCEPT !.config = c.file]

\* lines 453-464: save, reload, and take both tables from the dictionary
apply_schedule(c, schedule_type, table, written) ==
    LET config_key == IF schedule_type = "WEEKDAY" THEN "weekday" ELSE "weekend"
        r == save_config(c, config_key, table, written)
    IN  IF r.saved
        THEN LET c2 == load_config(r.c)
             IN  [c |-> [c2 EXCEPT !.weekday_schedule = c2.config.weekday,
                                   !.weekend_schedule = c2.config.weekend],
                  saved |-> TRUE]
        ELSE r

\* what every branch of the handler leaves alone
BleFrame ==
    UNCHANGED <<now, t_boot, pulses_total, lock, conn_handle, last_second,
                last_save_time, last_notify_time, pc, loc, fires, edges,
                flash, remote>>

process_ble_command(parts) ==
    /\ command = <<>>
    /\ command' = parts
    /\ pre' = ctl
    /\ BleFrame
    /\ \/ /\ parts[1] = ""
          /\ response' = "ERR: No command"
          /\ UNCHANGED <<ctl, flow_liters_total, session>>
       \/ /\ parts[1] = "VALVE" /\ Len(parts) = 2
          /\ ctl' = set_valve(ctl, parts[2] = "ON")
          /\ session' = SessionAfter(ctl, ctl', "cmd")
          /\ response' = "OK"
          /\ UNCHANGED flow_liters_total
       \/ /\ parts[1] = "MOTOR" /\ Len(parts) = 2
          /\ ctl' = set_motor(ctl, parts[2] = "ON")
          /\ response' = "OK"
          /\ UNCHANGED <<flow_liters_total, session>>
       \/ /\ parts[1] = "SET_SCHEDULE" /\ Len(parts) = 3
          /\ UNCHANGED <<flow_liters_total, session>>
          /\ IF parts[2] \notin {"WEEKDAY", "WEEKEND"}
             THEN /\ response' = "ERR: Tipo de horario invalido. Use WEEKDAY o WEEKEND."
                  /\ UNCHANGED ctl
             ELSE IF parts[3].json = "invalid"
             THEN /\ response' = "ERR: JSON invalido en el horario."
                  /\ UNCHANGED ctl
             ELSE IF ~ValidFormat(parts[3])
             THEN /\ response' = "ERR: Formato JSON de horario invalido. Use [[H, M], [H, M]]."
                  /\ UNCHANGED ctl
             ELSE \E written \in BOOLEAN :
                    LET r == apply_schedule(ctl, parts[2], Decoded(parts[3]),
                                            written)
                    IN  /\ ctl' = r.c
                        /\ response' =
                              IF r.saved
                              THEN "OK: Horario " \o parts[2]
                                       \o " actualizado y guardado."
                              ELSE "ERR: Fallo al guardar en config.json."
       \/ /\ parts[1] = "STATUS"
          \* notify_status() reads the state and sends it; nothing returned
          /\ response' = "None"
          /\ UNCHANGED <<ctl, flow_liters_total, session>>
       \/ /\ parts[1] = "RESET_FLOW"
          /\ \E written \in BOOLEAN :
                flow_liters_total' = save_log(<<0, 1>>, written)
          /\ response' = "OK: FLOW_TOTAL reset to 0.0"
          /\ UNCHANGED <<ctl, session>>
       \/ /\ parts[1] # ""
          /\ ~(parts[1] = "VALVE" /\ Len(parts) = 2)
          /\ ~(parts[1] = "MOTOR" /\ Len(parts) = 2)
          /\ ~(parts[1] = "SET_SCHEDULE" /\ Len(parts) = 3)
          /\ parts[1] \notin {"STATUS", "RESET_FLOW"}
          /\ response' = "ERR: Comando desconocido o formato incorrecto"
          /\ UNCHANGED <<ctl, flow_liters_total, session>>

\* BLEController._ble_irq, a write to the control characteristic: the
\* command is handed to the handler ...
ble_write == \E parts \in Commands : process_ble_command(parts)

\* ... and its response is written back before _ble_irq returns
ble_return ==
    /\ command # <<>>
    /\ command' = <<>> /\ response' = "" /\ pre' = <<>>
    /\ UNCHANGED <<now, t_boot, ctl, pulses_total, lock, flow_liters_total,
                   conn_handle, last_second, last_save_time, last_notify_time,
                   pc, loc, fires, session, edges, flash, remote>>

\* BLEController._ble_irq, a central connects or disconnects
ble_connect ==
    /\ command = <<>>
    /\ conn_handle = "None"
    /\ conn_handle' = "central"
    /\ UNCHANGED <<now, t_boot, ctl, pulses_total, lock, flow_liters_total,
                   last_second, last_save_time, last_notify_time, command,
                   response, pre, pc, loc, fires, session, edges, flash,
                   remote>>

ble_disconnect ==
    /\ command = <<>>
    /\ conn_handle # "None"
    /\ conn_handle' = "None"
    /\ UNCHANGED <<now, t_boot, ctl, pulses_total, lock, flow_liters_total,
                   last_second, last_save_time, last_notify_time, command,
                   response, pre, pc, loc, fires, session, edges, flash,
                   remote>>

\* f"{x:.2f}": the rational x in hundredths, rounded to the nearest
Hundredths(x) == (200 * x[1] + x[2]) \div (2 * x[2])

\* SystemController.notify_status: the fields of the status message
notify_status(c, total, t) ==
    [hour |-> t.hour, minute |-> t.minute,
     valve |-> IF c.valve_on THEN 1 ELSE 0,
     motor |-> IF c.motor_on THEN 1 ELSE 0,
     liters |-> Hundredths(total),
     scheduled |-> IF c.scheduled_run_active THEN 1 ELSE 0,
     day |-> t.weekday]

---------------------------------------------------------------------------
(* SystemController.main_loop: one pass of the while loop *)

\* 3. the scheduled activation
main_loop_schedule(c, t) ==
    IF check_scheduled_run(c, t.hour, t.minute, t.second, t.weekday)
    THEN LET c1 == set_valve(c, TRUE)
         IN  IF c1.valve_on
             THEN [c1 EXCEPT !.scheduled_run_active = TRUE,
                             !.flow_stop_timer_start = 0]
             ELSE c1
    ELSE c

\* the shutoff waiting for more than the timeout
main_loop_shutoff_late(c, flow_rate_lpm, current_timestamp) ==
    IF c.valve_on /\ c.scheduled_run_active
    THEN IF RatLess(flow_rate_lpm, <<1, 100>>)
         THEN IF c.flow_stop_timer_start = 0
              THEN [c EXCEPT !.flow_stop_timer_start = current_timestamp]
              ELSE IF current_timestamp - c.flow_stop_timer_start
                          > c.flow_stop_timeout
                   THEN [set_valve(c, FALSE) EXCEPT !.flow_stop_timer_start = 0]
                   ELSE c
         ELSE IF c.flow_stop_timer_start # 0
              THEN [c EXCEPT !.flow_stop_timer_start = 0]
              ELSE c
    ELSE c

\* the shutoff keeping its timer when flow is seen
main_loop_shutoff_no_reset(c, flow_rate_lpm, current_timestamp) ==
    IF c.valve_on /\ c.scheduled_run_active
    THEN IF RatLess(flow_rate_lpm, <<1, 100>>)
         THEN IF c.flow_stop_timer_start = 0
              THEN [c EXCEPT !.flow_stop_timer_start = current_timestamp]
              ELSE IF current_timestamp - c.flow_stop_timer_start
                          >= c.flow_stop_timeout
                   THEN [set_valve(c, FALSE) EXCEPT !.flow_stop_timer_start = 0]
                   ELSE c
         ELSE c
    ELSE c

\* the shutoff starting its timer again at every pass without flow
main_loop_shutoff_restarting(c, flow_rate_lpm, current_timestamp) ==
    IF c.valve_on /\ c.scheduled_run_active
    THEN IF RatLess(flow_rate_lpm, <<1, 100>>)
         THEN [c EXCEPT !.flow_stop_timer_start = current_timestamp]
         ELSE IF c.flow_stop_timer_start # 0
              THEN [c EXCEPT !.flow_stop_timer_start = 0]
              ELSE c
    ELSE c

\* 4. the shutoff on missing flow
main_loop_shutoff(c, flow_rate_lpm, current_timestamp) ==
    IF c.valve_on /\ c.scheduled_run_active
    THEN IF RatLess(flow_rate_lpm, <<1, 100>>)
         THEN IF c.flow_stop_timer_start = 0
              THEN [c EXCEPT !.flow_stop_timer_start = current_timestamp]
              ELSE IF current_timestamp - c.flow_stop_timer_start
                          >= c.flow_stop_timeout
                   THEN [set_valve(c, FALSE) EXCEPT !.flow_stop_timer_start = 0]
                   ELSE c
         ELSE IF c.flow_stop_timer_start # 0
              THEN [c EXCEPT !.flow_stop_timer_start = 0]
              ELSE c
    ELSE c

\* the pass running the shutoff before the scheduled activation
main_loop_shutoff_before_schedule ==
    LET t == get_current_time(now)
        current_timestamp == now
    IN  /\ pc = "loop"
        /\ command = <<>>
        /\ UNCHANGED <<now, t_boot, lock, conn_handle, command, response, pre,
                       pc, loc, edges, flash, remote>>
        /\ IF t.second # last_second
           THEN LET pulses == pulses_total
                    flow == calculate_flow(pulses, 1)
                    total == RatAdd(flow_liters_total, flow.liters_added)
                    save == current_timestamp - last_save_time >= SAVE_INTERVAL
                    fire == check_scheduled_run(ctl, t.hour, t.minute,
                                                t.second, t.weekday)
                    c3 == main_loop_shutoff(ctl, flow.flow_rate_lpm,
                                            current_timestamp)
                    c4 == main_loop_schedule(c3, t)
                    notify == /\ conn_handle # "None"
                              /\ current_timestamp - last_notify_time
                                     >= NOTIFY_INTERVAL
                IN  /\ last_second' = t.second
                    /\ pulses_total' = 0
                    /\ \E written \in BOOLEAN :
                          flow_liters_total' =
                              IF save THEN save_log(total, written) ELSE total
                    /\ last_save_time' = IF save THEN current_timestamp
                                         ELSE last_save_time
                    /\ ctl' = c4
                    /\ fires' = IF fire THEN Append(fires, current_timestamp)
                                ELSE fires
                    /\ session' =
                         IF ~c4.valve_on THEN NoSession
                         ELSE IF fire THEN [by |-> "sched", polled |-> FALSE]
                         ELSE [session EXCEPT !.polled =
                                  @ \/ RatLess(flow.flow_rate_lpm, <<1, 100>>)]
                    /\ last_notify_time' = IF notify THEN current_timestamp
                                           ELSE last_notify_time
           ELSE UNCHANGED <<ctl, pulses_total, flow_liters_total, last_second,
                            last_save_time, last_notify_time, fires, session>>

main_loop ==
    LET t == get_current_time(now)
        current_timestamp == now
    IN  /\ pc = "loop"
        /\ command = <<>>
        /\ UNCHANGED <<now, t_boot, lock, conn_handle, command, response, pre,
                       pc, loc, edges, flash, remote>>
        /\ IF t.second # last_second
           THEN LET pulses == pulses_total
                    flow == calculate_flow(pulses, 1)
                    total == RatAdd(flow_liters_total, flow.liters_added)
                    save == current_timestamp - last_save_time >= SAVE_INTERVAL
                    fire == check_scheduled_run(ctl, t.hour, t.minute,
                                                t.second, t.weekday)
                    c3 == main_loop_schedule(ctl, t)
                    c4 == main_loop_shutoff(c3, flow.flow_rate_lpm,
                                            current_timestamp)
                    notify == /\ conn_handle # "None"
                              /\ current_timestamp - last_notify_time
                                     >= NOTIFY_INTERVAL
                IN  /\ last_second' = t.second
                    /\ pulses_total' = 0
                    /\ \E written \in BOOLEAN :
                          flow_liters_total' =
                              IF save THEN save_log(total, written) ELSE total
                    /\ last_save_time' = IF save THEN current_timestamp
                                         ELSE last_save_time
                    /\ ctl' = c4
                    /\ fires' = IF fire THEN Append(fires, current_timestamp)
                                ELSE fires
                    /\ session' =
                         IF ~c4.valve_on THEN NoSession
                         ELSE IF fire THEN [by |-> "sched", polled |-> FALSE]
                         ELSE [session EXCEPT !.polled =
                                  @ \/ RatLess(flow.flow_rate_lpm, <<1, 100>>)]
                    /\ last_notify_time' = IF notify THEN current_timestamp
                                           ELSE last_notify_time
           ELSE UNCHANGED <<ctl, pulses_total, flow_liters_total, last_second,
                            last_save_time, last_notify_time, fires, session>>

---------------------------------------------------------------------------
(* SystemController.main_loop statement by statement: what the BLE         *)
(* handler and the sensor interrupt can run between.                       *)

NoLoc == [t |-> [hour |-> 0, minute |-> 0, second |-> 0, weekday |-> 0],
          current_timestamp |-> 0, pulses |-> 0,
          flow_rate_lpm |-> <<0, 1>>, liters_added |-> <<0, 1>>,
          total |-> <<0, 1>>, state |-> FALSE, ret |-> "loop",
          target_schedule |-> <<>>]

\* what a statement of the pass leaves alone, apart from what it names
StepFrame(changed) ==
    /\ command = <<>>
    /\ UNCHANGED <<now, t_boot, conn_handle, command, response, pre, edges,
                   flash, remote>>
    /\ "ctl" \in changed \/ UNCHANGED ctl
    /\ "pulses_total" \in changed \/ UNCHANGED pulses_total
    /\ "lock" \in changed \/ UNCHANGED lock
    /\ "flow_liters_total" \in changed \/ UNCHANGED flow_liters_total
    /\ "last_second" \in changed \/ UNCHANGED last_second
    /\ "last_save_time" \in changed \/ UNCHANGED last_save_time
    /\ "last_notify_time" \in changed \/ UNCHANGED last_notify_time
    /\ "loc" \in changed \/ UNCHANGED loc
    /\ "fires" \in changed \/ UNCHANGED fires
    /\ "session" \in changed \/ UNCHANGED session

\* 518-523: read the clock; the body runs once per second
l_loop ==
    /\ pc = "loop"
    /\ LET t == get_current_time(now)
       IN  IF t.second # last_second
           THEN /\ last_second' = t.second
                /\ loc' = [NoLoc EXCEPT !.t = t, !.current_timestamp = now]
                /\ pc' = "drain_read"
                /\ StepFrame({"last_second", "loc"})
           ELSE /\ pc' = pc
                /\ StepFrame({})

\* 152-153: read_and_reset_pulses takes the lock and reads the counter
l_drain_read ==
    /\ pc = "drain_read"
    /\ lock = "free"
    /\ lock' = "main"
    /\ loc' = [loc EXCEPT !.pulses = pulses_total]
    /\ pc' = "drain_reset"
    /\ StepFrame({"lock", "loc"})

\* 154-155: ... clears it and releases the lock
l_drain_reset ==
    /\ pc = "drain_reset"
    /\ pulses_total' = 0
    /\ lock' = "free"
    /\ pc' = "accum_read"
    /\ StepFrame({"pulses_total", "lock"})

\* 527-528: calculate_flow, and the read of flow_liters_total += ...
l_accum_read ==
    /\ pc = "accum_read"
    /\ LET flow == calculate_flow(loc.pulses, 1)
       IN  loc' = [loc EXCEPT !.flow_rate_lpm = flow.flow_rate_lpm,
                              !.liters_added = flow.liters_added,
                              !.total = flow_liters_total]
    /\ pc' = "accum_write"
    /\ StepFrame({"loc"})

\* 528: ... and its write
l_accum_write ==
    /\ pc = "accum_write"
    /\ flow_liters_total' = RatAdd(loc.total, loc.liters_added)
    /\ pc' = "save"
    /\ StepFrame({"flow_liters_total"})

\* 531-533: the log is saved every 60 seconds
l_save ==
    /\ pc = "save"
    /\ IF loc.current_timestamp - last_save_time >= SAVE_INTERVAL
       THEN /\ \E written \in BOOLEAN :
                  flow_liters_total' = save_log(flow_liters_total, written)
            /\ last_save_time' = loc.current_timestamp
       ELSE UNCHANGED <<flow_liters_total, last_save_time>>
    /\ pc' = "sched"
    /\ StepFrame({"flow_liters_total", "last_save_time"})

\* 536-537: check_scheduled_run, and the call of set_valve(True)
l_sched ==
    /\ pc = "sched"
    /\ IF check_scheduled_run(ctl, loc.t.hour, loc.t.minute, loc.t.second,
                              loc.t.weekday)
       THEN /\ loc' = [loc EXCEPT !.state = TRUE, !.ret = "mark"]
            /\ fires' = Append(fires, loc.current_timestamp)
            /\ pc' = "sv_test"
       ELSE /\ UNCHANGED <<loc, fires>>
            /\ pc' = "stall"
    /\ StepFrame({"loc", "fires"})

\* check_scheduled_run statement by statement, for the commands that
\* replace a table while it runs.
\* 391: nothing to do with the valve open or off second 0
l_sched_valve ==
    /\ pc = "sched"
    /\ pc' = IF ctl.valve_on \/ loc.t.second # 0 THEN "stall" ELSE "sched_table"
    /\ StepFrame({})

\* 395-404: target_schedule is bound to the list that is the table of the day
l_sched_table ==
    /\ pc = "sched_table"
    /\ LET is_weekday == 0 <= loc.t.weekday /\ loc.t.weekday <= 4
           is_weekend == 5 <= loc.t.weekday /\ loc.t.weekday <= 6
       IN  loc' = [loc EXCEPT !.target_schedule =
                      IF is_weekday THEN ctl.weekday_schedule
                      ELSE IF is_weekend THEN ctl.weekend_schedule
                      ELSE <<>>]
    /\ pc' = "sched_member"
    /\ StepFrame({"loc"})

\* the membership test going through the positions of target_schedule and
\* taking each entry after the first from the table in use at that moment
l_sched_member_rereading ==
    /\ pc = "sched_member"
    /\ LET in_use == IF loc.t.weekday <= 4 THEN ctl.weekday_schedule
                     ELSE ctl.weekend_schedule
           seen == [i \in 1..Len(loc.target_schedule) |->
                       IF i > 1 /\ i <= Len(in_use) THEN in_use[i]
                       ELSE loc.target_schedule[i]]
       IN  IF seen # <<>> /\ In(<<loc.t.hour, loc.t.minute>>, seen)
           THEN /\ loc' = [loc EXCEPT !.target_schedule = seen,
                                      !.state = TRUE, !.ret = "mark"]
                /\ fires' = Append(fires, loc.current_timestamp)
                /\ pc' = "sv_test"
           ELSE /\ loc' = [loc EXCEPT !.target_schedule = seen]
                /\ UNCHANGED fires
                /\ pc' = "stall"
    /\ StepFrame({"loc", "fires"})

\* 407-411, 536-537: current_time in target_schedule, and the call of
\* set_valve(True)
l_sched_member ==
    /\ pc = "sched_member"
    /\ IF /\ loc.target_schedule # <<>>
          /\ In(<<loc.t.hour, loc.t.minute>>, loc.target_schedule)
       THEN /\ loc' = [loc EXCEPT !.state = TRUE, !.ret = "mark"]
            /\ fires' = Append(fires, loc.current_timestamp)
            /\ pc' = "sv_test"
       ELSE /\ UNCHANGED <<loc, fires>>
            /\ pc' = "stall"
    /\ StepFrame({"loc", "fires"})

\* set_valve going on to the valve's pin without its test of the motor
l_sv_test_skipping_motor ==
    /\ pc = "sv_test"
    /\ pc' = "sv_pin"
    /\ StepFrame({})

\* 370-373: set_valve tests the motor
l_sv_test ==
    /\ pc = "sv_test"
    /\ pc' = IF loc.state /\ ctl.motor_on THEN "sm_pin" ELSE "sv_pin"
    /\ StepFrame({})

\* 364: set_motor(False) drives the motor pin
l_sm_pin ==
    /\ pc = "sm_pin"
    /\ ctl' = [ctl EXCEPT !.motor_pin = 0]
    /\ pc' = "sm_flag"
    /\ StepFrame({"ctl"})

\* 365: ... and sets the flag
l_sm_flag ==
    /\ pc = "sm_flag"
    /\ ctl' = [ctl EXCEPT !.motor_on = FALSE]
    /\ pc' = "sv_pin"
    /\ StepFrame({"ctl"})

\* 375-376: set_valve drives the valve pin
l_sv_pin ==
    /\ pc = "sv_pin"
    /\ ctl' = [ctl EXCEPT !.valve_pin = IF loc.state THEN 1 ELSE 0]
    /\ pc' = "sv_flag"
    /\ StepFrame({"ctl"})

\* 377: ... and sets the flag
l_sv_flag ==
    /\ pc = "sv_flag"
    /\ ctl' = [ctl EXCEPT !.valve_on = loc.state]
    /\ session' = SessionAfter(ctl, ctl', "sched")
    /\ pc' = "sv_sra"
    /\ StepFrame({"ctl", "session"})

\* 381-382: a closed valve ends the scheduled run; set_valve returns
l_sv_sra ==
    /\ pc = "sv_sra"
    /\ ctl' = IF ~ctl.valve_on THEN [ctl EXCEPT !.scheduled_run_active = FALSE]
              ELSE ctl
    /\ pc' = loc.ret
    /\ StepFrame({"ctl"})

\* 538-539: the run is marked as scheduled
l_mark ==
    /\ pc = "mark"
    /\ IF ctl.valve_on
       THEN /\ ctl' = [ctl EXCEPT !.scheduled_run_active = TRUE]
            /\ pc' = "mark_timer"
       ELSE /\ UNCHANGED ctl
            /\ pc' = "stall"
    /\ StepFrame({"ctl"})

\* 540
l_mark_timer ==
    /\ pc = "mark_timer"
    /\ ctl' = [ctl EXCEPT !.flow_stop_timer_start = 0]
    /\ pc' = "stall"
    /\ StepFrame({"ctl"})

\* 543-558: the shutoff on missing flow, up to its call of set_valve(False)
l_stall ==
    /\ pc = "stall"
    /\ LET noflow == RatLess(loc.flow_rate_lpm, <<1, 100>>)
           active == ctl.valve_on /\ ctl.scheduled_run_active
           expired == loc.current_timestamp - ctl.flow_stop_timer_start
                          >= ctl.flow_stop_timeout
       IN  /\ IF active /\ noflow /\ ctl.flow_stop_timer_start # 0 /\ expired
              THEN /\ loc' = [loc EXCEPT !.state = FALSE, !.ret = "stall_reset"]
                   /\ pc' = "sv_pin"
                   /\ UNCHANGED ctl
              ELSE /\ ctl' = IF active /\ noflow
                             THEN IF ctl.flow_stop_timer_start = 0
                                  THEN [ctl EXCEPT !.flow_stop_timer_start =
                                                       loc.current_timestamp]
                                  ELSE ctl
                             ELSE IF active
                                  THEN [ctl EXCEPT !.flow_stop_timer_start = 0]
                                  ELSE ctl
                   /\ pc' = "notify"
                   /\ UNCHANGED loc
           /\ session' = IF ctl.valve_on
                         THEN [session EXCEPT !.polled = @ \/ noflow]
                         ELSE session
    /\ StepFrame({"ctl", "loc", "session"})

\* 551
l_stall_reset ==
    /\ pc = "stall_reset"
    /\ ctl' = [ctl EXCEPT !.flow_stop_timer_start = 0]
    /\ pc' = "notify"
    /\ StepFrame({"ctl"})

\* the notification sent in every pass, whatever the time since the last
l_notify_every_pass ==
    /\ pc = "notify"
    /\ last_notify_time' = IF conn_handle # "None" THEN loc.current_timestamp
                           ELSE last_notify_time
    /\ loc' = NoLoc
    /\ pc' = "loop"
    /\ StepFrame({"last_notify_time", "loc"})

\* 561-567: the status notification, and the sleep that ends the pass
l_notify ==
    /\ pc = "notify"
    /\ last_notify_time' =
          IF /\ conn_handle # "None"
             /\ loc.current_timestamp - last_notify_time >= NOTIFY_INTERVAL
          THEN loc.current_timestamp
          ELSE last_notify_time
    /\ loc' = NoLoc
    /\ pc' = "loop"
    /\ StepFrame({"last_notify_time", "loc"})

\* the statements of a pass that call into the machine, the sensor, the
\* log or BLE, or build a number or a string, and so can raise
RaisingPoints ==
    { "loop", "drain_read", "accum_read", "accum_write", "save", "sched",
      "sm_pin", "sv_pin", "sv_sra", "stall", "notify" }

\* 516, 569: an exception raised by the statement about to run is caught
\* by the try of the loop body
l_exception ==
    /\ pc \in RaisingPoints
    /\ (now - t_boot) % 60 < MaxSeconds
    /\ pc' = "except"
    /\ loc' = NoLoc
    /\ StepFrame({"loc"})

\* the handler leaving the loop instead of going round again
l_backoff_exiting ==
    /\ pc = "except"
    /\ pc' = "done"
    /\ StepFrame({})

\* 570-572: the handler prints, sleeps a second and the loop goes round
l_backoff ==
    /\ pc = "except"
    /\ command = <<>>
    /\ now' = now + 1
    /\ pc' = "loop"
    /\ UNCHANGED <<t_boot, ctl, pulses_total, lock, flow_liters_total,
                   conn_handle, last_second, last_save_time, last_notify_time,
                   command, response, pre, loc, fires, session, edges, flash,
                   remote>>

---------------------------------------------------------------------------
(* The clock *)
(* The loop sleeps 10 ms per pass, so it sees every second the clock       *)
(* shows; a loop that is held up (an exception's back-off, a long handler) *)
(* is a clock step of more than a second.  A pass works on the time it     *)
(* read at its head, so the clock moves between passes only.               *)

ClockFrame ==
    /\ command = <<>>
    /\ pc = "loop"
    /\ UNCHANGED <<t_boot, ctl, pulses_total, lock, flow_liters_total,
                   conn_handle, last_second, last_save_time, last_notify_time,
                   command, response, pre, pc, loc, fires, session, edges,
                   flash, remote>>

\* a second passes
clock_second ==
    /\ last_second = get_current_time(now).second
    /\ (now - t_boot) % 60 < MaxSeconds
    /\ now' = now + 1
    /\ ClockFrame

\* the loop is held up over a second
clock_skip ==
    /\ last_second = get_current_time(now).second
    /\ ((now - t_boot) % 60) + 1 < MaxSeconds
    /\ now' = now + 2
    /\ ClockFrame

\* the loop is held up for a whole minute
clock_minute ==
    /\ last_second = get_current_time(now).second
    /\ (now - t_boot) \div 60 < MaxMinutes
    /\ now' = now + 60
    /\ ClockFrame

----------------------------------------------------------------------------
(* boot.py and the OTA updater.  A file name is the sequence of its pieces *)
(* ("update" + "main.py" is <<"update", "main.py">>, one name in the root; *)
(* "update" + "/main.py" is <<"update", "/", "main.py">>, main.py in the   *)
(* folder update).  A version is what version.json holds under 'version': *)
(* the string 'n.0' or the number n.0; the content of a file is the        *)
(* version of the release it comes from.                                   *)

MaxVersion == 2

update_folder == <<"update">>
current_version_file == <<"version.json">>
main_file == <<"main.py">>

Versions == [kind : {"str", "num"}, n : 1 .. MaxVersion]

\* '0.0', what ota.py takes for a version it cannot read (80, 90)
NoVersion == [kind |-> "str", n |-> 0]

NoFiles == [n \in {} |-> NoVersion]

\* the flash with release v installed (no version.json for NoVersion)
Flash(v) ==
    [root |-> IF v = NoVersion THEN [n \in {main_file} |-> v]
              ELSE [n \in {main_file, current_version_file} |-> v],
     dir |-> FALSE,
     update |-> NoFiles]

\* what files.json may list
FileLists == { << main_file >>,
               << <<"/", "main.py">> >>,
               << main_file, <<"/", "main.py">> >> }

\* how the filesystem reads a path
InUpdateFolder(path) ==
    Len(path) >= 3 /\ path[1] = "update" /\ path[2] = "/"
NameIn(path) ==
    IF InUpdateFolder(path) THEN SubSeq(path, 3, Len(path))
    ELSE IF path[1] = "/" THEN Tail(path) ELSE path

Exists(fs, path) ==
    IF InUpdateFolder(path) THEN fs.dir /\ NameIn(path) \in DOMAIN fs.update
    ELSE NameIn(path) \in DOMAIN fs.root

ReadFile(fs, path) ==
    IF InUpdateFolder(path) THEN fs.update[NameIn(path)]
    ELSE fs.root[NameIn(path)]

Put(files, name, content) ==
    [n \in DOMAIN files \cup {name} |-> IF n = name THEN content ELSE files[n]]

WriteFile(fs, path, content) ==
    IF InUpdateFolder(path)
    THEN [fs EXCEPT !.update = Put(@, NameIn(path), content)]
    ELSE [fs EXCEPT !.root = Put(@, NameIn(path), content)]

RemoveFile(fs, path) ==
    IF InUpdateFolder(path)
    THEN [fs EXCEPT !.update = [n \in DOMAIN @ \ {NameIn(path)} |-> @[n]]]
    ELSE [fs EXCEPT !.root = [n \in DOMAIN @ \ {NameIn(path)} |-> @[n]]]

\* os.listdir('update'): the names in the folder, in some order
Listings(fs) ==
    LET names == DOMAIN fs.update
    IN  { order \in [1 .. Cardinality(names) -> names] :
              \A i, j \in DOMAIN order : order[i] = order[j] => i = j }

\* ota.py 128-130, 194-196: os.remove('update' + file) for each file listed,
\* then os.rmdir; the first OSError ends it
RECURSIVE RemoveListed(_, _)
RemoveListed(fs, order) ==
    IF order = <<>>
    THEN IF DOMAIN fs.update = {} THEN [fs EXCEPT !.dir = FALSE] ELSE fs
    ELSE IF Exists(fs, update_folder \o Head(order))
         THEN RemoveListed(RemoveFile(fs, update_folder \o Head(order)),
                           Tail(order))
         ELSE fs

\* OTAUpdater.clean_update_folder; its bare except swallows the error
clean_update_folder(fs, order) ==
    IF fs.dir THEN RemoveListed(fs, order) ELSE fs

\* OTAUpdater._get_current_version
get_current_version(fs) ==
    IF Exists(fs, current_version_file) THEN ReadFile(fs, current_version_file)
    ELSE NoVersion

\* _download_file, 95: temp_filepath = self.update_folder + filename
download_path(filename) == update_folder \o filename

\* boot.py's locals: the files still to handle, what has failed, what
\* check_for_updates returned
NoBootLoc == [todo |-> <<>>, failed |-> "", result |-> "None"]

BootFrame ==
    UNCHANGED <<now, t_boot, ctl, pulses_total, lock, flow_liters_total,
                conn_handle, last_second, last_save_time, last_notify_time,
                command, response, pre, fires, session, edges, remote>>

\* boot.py 97, 70-71: check_for_updates() is called; connect_to_wifi()
boot_connect_to_wifi ==
    /\ pc = "boot"
    /\ \E connected \in BOOLEAN :
          IF connected
          THEN pc' = "check" /\ UNCHANGED loc
          ELSE /\ pc' = "main"
               /\ loc' = [loc EXCEPT !.failed = "wifi", !.result = "False"]
    /\ UNCHANGED flash
    /\ BootFrame

\* boot.py 72-77, ota.py 111-121: the remote version ('0.0' if it cannot be
\* fetched, 70-80) against the local one; a string against a number is a
\* TypeError, caught in boot.py, which returns False (89-92).  With no
\* update boot.py prints "ya está actualizado" and returns True (83-87)
ota_check_for_updates ==
    /\ pc = "check"
    /\ \E fetched \in BOOLEAN :
          LET latest_version == IF fetched THEN remote.version ELSE NoVersion
              current_version == get_current_version(flash)
          IN  IF latest_version.kind # current_version.kind
              THEN /\ pc' = "main"
                   /\ loc' = [loc EXCEPT !.failed =
                                  IF fetched THEN "types" ELSE "version",
                                         !.result = "False"]
              ELSE IF latest_version.n > current_version.n
              THEN pc' = "download" /\ UNCHANGED loc
              ELSE /\ pc' = "main"
                   /\ loc' = [loc EXCEPT !.failed =
                                  IF fetched THEN "" ELSE "version",
                                         !.result = "True"]
    /\ UNCHANGED flash
    /\ BootFrame

\* ota.py 125-142: the old folder is removed, files.json fetched, the folder
\* made
ota_download_updates ==
    /\ pc = "download"
    /\ \E order \in Listings(flash), listed \in BOOLEAN :
          LET cleaned == clean_update_folder(flash, order)
          IN  IF listed
              THEN /\ flash' = [cleaned EXCEPT !.dir = TRUE]
                   /\ loc' = [loc EXCEPT !.todo =
                                  remote.files \o <<current_version_file>>]
                   /\ pc' = "download_file"
              ELSE /\ flash' = cleaned
                   /\ loc' = [loc EXCEPT !.failed = "download"]
                   /\ pc' = "download_failed"
    /\ BootFrame

\* ota.py 145-149, 92-109: the next file of the list, version.json last
ota_download_file ==
    /\ pc = "download_file"
    /\ \E got \in BOOLEAN :
          IF got
          THEN /\ flash' = WriteFile([flash EXCEPT !.dir = TRUE],
                                     download_path(Head(loc.todo)),
                                     remote.version)
               /\ loc' = [loc EXCEPT !.todo = Tail(loc.todo)]
               /\ pc' = IF Tail(loc.todo) = <<>> THEN "install"
                        ELSE "download_file"
          ELSE /\ UNCHANGED flash
               /\ loc' = [loc EXCEPT !.failed = "download"]
               /\ pc' = "download_failed"
    /\ BootFrame

\* a failed download going on to install what there is
ota_download_failed_installing ==
    /\ pc = "download_failed"
    /\ pc' = "install"
    /\ UNCHANGED <<flash, loc>>
    /\ BootFrame

\* ota.py 151-155, boot.py 89-92: the folder is cleaned, the exception
\* raised again and caught in boot.py, which returns False
ota_download_failed ==
    /\ pc = "download_failed"
    /\ \E order \in Listings(flash) :
          flash' = clean_update_folder(flash, order)
    /\ loc' = [loc EXCEPT !.result = "False"]
    /\ pc' = "main"
    /\ BootFrame

\* boot.py 81, ota.py 161: install_updates lists the folder
ota_install_updates ==
    /\ pc = "install"
    /\ \E order \in Listings(flash) : loc' = [loc EXCEPT !.todo = order]
    /\ pc' = "install_file"
    /\ UNCHANGED flash
    /\ BootFrame

\* ota.py 161-179: one file is read from 'update' + file, removed from the
\* root, written there and its source removed; an OSError ends the
\* installation (185-188), and boot.py returns True (86-87)
ota_install_file ==
    /\ pc = "install_file"
    /\ loc.todo # <<>>
    /\ LET file == Head(loc.todo)
           source == update_folder \o file
       IN  IF Exists(flash, source)
           THEN /\ flash' = RemoveFile(
                                WriteFile(flash, file, ReadFile(flash, source)),
                                source)
                /\ loc' = [loc EXCEPT !.todo = Tail(loc.todo)]
                /\ pc' = "install_file"
           ELSE /\ \E order \in Listings(flash) :
                      flash' = clean_update_folder(flash, order)
                /\ loc' = [loc EXCEPT !.result = "True"]
                /\ pc' = "main"
    /\ BootFrame

\* ota.py 181-183: the folder is cleaned and the device reset
ota_install_reset ==
    /\ pc = "install_file"
    /\ loc.todo = <<>>
    /\ \E order \in Listings(flash) :
          flash' = clean_update_folder(flash, order)
    /\ loc' = NoBootLoc
    /\ pc' = "boot"
    /\ BootFrame

\* boot.py 99-101: boot.py is over and main.py of the root starts
start_main ==
    /\ pc = "main"
    /\ pc' = "loop"
    /\ loc' = NoLoc
    /\ UNCHANGED flash
    /\ BootFrame

\* boot.py 1: a reset or a power cycle runs boot.py again
power_on ==
    /\ pc = "loop"
    /\ pc' = "boot"
    /\ loc' = NoBootLoc
    /\ UNCHANGED flash
    /\ BootFrame

---------------------------------------------------------------------------
(* The initial state: SystemController.__init__ and the entry of main_loop *)

\* local Monday and Saturday mornings, two seconds before 7:00
StartTimes == { EpochOf(2, 6, 59, 58), EpochOf(7, 6, 59, 58) }

\* what config.json may hold
Timeouts == {0, 2, FLOW_STOP_TIMEOUT}
Schedules == { [weekday |-> DEFAULT_WEEKDAY, weekend |-> DEFAULT_WEEKEND],
               [weekday |-> <<>>, weekend |-> << <<7, 0>>, <<7, 1>> >>] }
\* what water_log.json may hold
InitialTotals == { <<0, 1>> }

\* __init__ creating the motor's pin with value=1
Controller_motor_pin_high(timeout, sch) ==
    [valve_on |-> FALSE, motor_on |-> FALSE,
     valve_pin |-> 0, motor_pin |-> 1,
     scheduled_run_active |-> FALSE,
     flow_stop_timer_start |-> 0,
     flow_stop_timeout |-> timeout,
     weekday_schedule |-> sch.weekday,
     weekend_schedule |-> sch.weekend,
     config |-> sch,
     file |-> sch]

\* self.* after __init__, with the timeout and the tables config.json held;
\* config is the two tables of the dictionary ConfigManager.config (which
\* self.config refers to), file the two tables of config.json
Controller(timeout, sch) ==
    [valve_on |-> FALSE, motor_on |-> FALSE,
     valve_pin |-> 0, motor_pin |-> 0,
     scheduled_run_active |-> FALSE,
     flow_stop_timer_start |-> 0,
     flow_stop_timeout |-> timeout,
     weekday_schedule |-> sch.weekday,
     weekend_schedule |-> sch.weekend,
     config |-> sch,
     file |-> sch]

\* main_loop is entered at time t with the controller c, the total that
\* load_log read and the pulses counted since the sensor was set up
InitWith(t, c, total, pulses) ==
    /\ t_boot = t
    /\ now = t
    /\ ctl = c
    /\ pulses_total = pulses
    /\ lock = "free"
    /\ flow_liters_total = total
    /\ conn_handle = "None"
    /\ last_second = -1
    /\ last_save_time = t
    /\ last_notify_time = t
    /\ command = <<>> /\ response = "" /\ pre = <<>>
    /\ pc = "loop"
    /\ loc = NoLoc
    /\ fires = <<>>
    /\ session = IF c.valve_on THEN [by |-> "cmd", polled |-> FALSE]
                 ELSE NoSession
    /\ edges = 0
    /\ flash = Flash([kind |-> "str", n |-> 1])
    /\ remote = [version |-> [kind |-> "str", n |-> 1],
                 files |-> <<main_file>>]

InitAt(t, c) == \E total \in InitialTotals : InitWith(t, c, total, 0)

Init ==
    \E t \in StartTimes, timeout \in Timeouts, sch \in Schedules :
        InitAt(t, Controller(timeout, sch))

Next ==
    \/ clock_second
    \/ clock_skip
    \/ clock_minute
    \/ irq_handler
    \/ ble_write
    \/ ble_return
    \/ main_loop

Spec == Init /\ [][Next]_vars

---------------------------------------------------------------------------
(* The loop pass open to preemption: a Monday morning, one second before   *)
(* 7:00, with the default tables and a configured timeout of 0.            *)

IrqCommands == { <<"VALVE", "ON">>, <<"VALVE", "OFF">>,
                 <<"MOTOR", "ON">>, <<"MOTOR", "OFF">>, <<"RESET_FLOW">> }

ble_write_irq == \E parts \in IrqCommands : process_ble_command(parts)

InitIrq ==
    InitAt(EpochOf(2, 6, 59, 59),
           Controller(0, [weekday |-> DEFAULT_WEEKDAY,
                          weekend |-> DEFAULT_WEEKEND]))

NextIrq ==
    \/ clock_second
    \/ irq_handler
    \/ ble_write_irq
    \/ ble_return
    \/ l_loop
    \/ l_drain_read
    \/ l_drain_reset
    \/ l_accum_read
    \/ l_accum_write
    \/ l_save
    \/ l_sched
    \/ l_sv_test
    \/ l_sm_pin
    \/ l_sm_flag
    \/ l_sv_pin
    \/ l_sv_flag
    \/ l_sv_sra
    \/ l_mark
    \/ l_mark_timer
    \/ l_stall
    \/ l_stall_reset
    \/ l_notify

SpecIrq == InitIrq /\ [][NextIrq]_vars

---------------------------------------------------------------------------
(* The loop pass with exceptions: the statements of SpecIrq, any raising   *)
(* statement of a pass failing, commands handled between passes and while  *)
(* the loop backs off.  The loop keeps running and a handler returns,      *)
(* which is the fairness the interpreter gives.                            *)

ExcCommands == { <<"VALVE", "ON">>, <<"VALVE", "OFF">>, <<"MOTOR", "ON">> }

ble_write_exc ==
    /\ pc \in {"loop", "except"}
    /\ \E parts \in ExcCommands : process_ble_command(parts)

LoopStep ==
    \/ l_loop \/ l_drain_read \/ l_drain_reset \/ l_accum_read
    \/ l_accum_write \/ l_save \/ l_sched \/ l_sv_test \/ l_sm_pin
    \/ l_sm_flag \/ l_sv_pin \/ l_sv_flag \/ l_sv_sra \/ l_mark
    \/ l_mark_timer \/ l_stall \/ l_stall_reset \/ l_notify \/ l_backoff

NextExc ==
    \/ clock_second
    \/ ble_write_exc
    \/ ble_return
    \/ l_exception
    \/ LoopStep

SpecExc ==
    InitIrq /\ [][NextExc]_vars /\ SF_vars(LoopStep) /\ WF_vars(ble_return)

---------------------------------------------------------------------------
(* The total of liters: a stored total, pulses waiting at the entry of    *)
(* the loop, the two commands that read and reset the total.               *)

MaxPulses == 3

StoredTotals == { <<5, 1>>, <<617, 50>> }

TotalsCommands == { <<"RESET_FLOW">>, <<"STATUS">> }

ble_write_totals == \E parts \in TotalsCommands : process_ble_command(parts)

InitTotals ==
    \E total \in StoredTotals, pulses \in 0..MaxPulses :
        InitWith(EpochOf(2, 6, 59, 58),
                 Controller(FLOW_STOP_TIMEOUT,
                            [weekday |-> DEFAULT_WEEKDAY,
                             weekend |-> DEFAULT_WEEKEND]),
                 total, pulses)

NextTotals ==
    \/ clock_second
    \/ clock_minute
    \/ irq_handler
    \/ ble_write_totals
    \/ ble_return
    \/ main_loop

SpecTotals == InitTotals /\ [][NextTotals]_vars

---------------------------------------------------------------------------
(* The replacement of the tables: a Monday morning with the default        *)
(* tables, SET_SCHEDULE commands of every shape, the loop running.         *)

SchedulePayloads ==
    { NotJson, NotAList,
      Payload(<< Entry(<<7, 1>>) >>),
      Payload(<< Entry(<<25, 0>>) >>),
      Payload(<< Entry(<<7, 0>>), Entry(<<7, 60>>) >>),
      Payload(<< Entry(<<7>>) >>),
      Payload(<< Entry(<<7, 0>>), [items |-> <<7, 30>>, ints |-> FALSE] >>) }

ConfigCommands ==
    { <<"SET_SCHEDULE", type, p>> :
          type \in {"WEEKDAY", "WEEKEND", "DAILY"}, p \in SchedulePayloads }
    \cup { <<"SET_SCHEDULE", "WEEKDAY">> }

ble_write_config == \E parts \in ConfigCommands : process_ble_command(parts)

InitConfig ==
    InitAt(EpochOf(2, 6, 59, 58),
           Controller(FLOW_STOP_TIMEOUT,
                      [weekday |-> DEFAULT_WEEKDAY, weekend |-> DEFAULT_WEEKEND]))

NextConfig ==
    \/ clock_second
    \/ ble_write_config
    \/ ble_return
    \/ main_loop

SpecConfig == InitConfig /\ [][NextConfig]_vars

---------------------------------------------------------------------------
(* The Scheduler on its own: one loop pass from every day of the week, a   *)
(* choice of hours, minutes and seconds, every table and either position   *)
(* of the valve (opened by command before the pass).                       *)

ScheduleTimes ==
    { EpochOf(day, h, m, s) :
        day \in 2..8, h \in {7, 8}, m \in {0, 1}, s \in {0, 1} }

ScheduleTables ==
    Schedules \cup { [weekday |-> << <<8, 0>> >>, weekend |-> <<>>],
                     [weekday |-> << <<7, 1>> >>, weekend |-> << <<7, 1>> >>] }

InitSchedule ==
    \E t \in ScheduleTimes, sch \in ScheduleTables, v \in BOOLEAN :
        /\ InitAt(t, IF v THEN set_valve(Controller(FLOW_STOP_TIMEOUT, sch), TRUE)
                      ELSE Controller(FLOW_STOP_TIMEOUT, sch))

NextSchedule == main_loop

SpecSchedule == InitSchedule /\ [][NextSchedule]_vars

---------------------------------------------------------------------------
(* The loop kept running: a Monday morning two seconds before 7:00 with    *)
(* the default tables and each timeout, sensor edges, the commands that    *)
(* touch the valve.  The while loop never ends and sleeps 10 ms per pass,  *)
(* so a pass runs and the clock is read again and again, a handler in      *)
(* between having returned: strong fairness of the pass and of the second, *)
(* weak fairness of the handler's return.                                  *)

LiveCommands == { <<"VALVE", "ON">>, <<"VALVE", "OFF">>, <<"MOTOR", "ON">> }

ble_write_live == \E parts \in LiveCommands : process_ble_command(parts)

InitLive ==
    \E timeout \in Timeouts :
        InitAt(EpochOf(2, 6, 59, 58),
               Controller(timeout, [weekday |-> DEFAULT_WEEKDAY,
                                    weekend |-> DEFAULT_WEEKEND]))

NextLive ==
    \/ clock_second
    \/ clock_skip
    \/ irq_handler
    \/ ble_write_live
    \/ ble_return
    \/ main_loop

SpecLive ==
    /\ InitLive /\ [][NextLive]_vars
    /\ SF_vars(main_loop) /\ SF_vars(clock_second) /\ WF_vars(ble_return)

---------------------------------------------------------------------------
(* The replacement of a table while the Scheduler evaluates: the pass of    *)
(* SpecIrq with check_scheduled_run split at its statements, a Monday       *)
(* morning one second before 7:00, SET_SCHEDULE commands handled between    *)
(* any two statements.                                                      *)

ReplaceCommands ==
    { <<"SET_SCHEDULE", "WEEKDAY", Payload(<< Entry(<<7, 1>>) >>)>>,
      <<"SET_SCHEDULE", "WEEKDAY",
        Payload(<< Entry(<<6, 59>>), Entry(<<7, 0>>) >>)>>,
      <<"SET_SCHEDULE", "WEEKEND", Payload(<< Entry(<<7, 0>>) >>)>> }

ble_write_replace == \E parts \in ReplaceCommands : process_ble_command(parts)

InitReplace ==
    InitAt(EpochOf(2, 6, 59, 59),
           Controller(FLOW_STOP_TIMEOUT,
                      [weekday |-> DEFAULT_WEEKDAY, weekend |-> DEFAULT_WEEKEND]))

NextReplace ==
    \/ clock_second
    \/ ble_write_replace
    \/ ble_return
    \/ l_loop
    \/ l_drain_read
    \/ l_drain_reset
    \/ l_accum_read
    \/ l_accum_write
    \/ l_save
    \/ l_sched_valve
    \/ l_sched_table
    \/ l_sched_member
    \/ l_sv_test
    \/ l_sv_pin
    \/ l_sv_flag
    \/ l_sv_sra
    \/ l_mark
    \/ l_mark_timer
    \/ l_stall
    \/ l_stall_reset
    \/ l_notify

SpecReplace == InitReplace /\ [][NextReplace]_vars

-----------------------------------------------------------------------------
(* calculate_flow on its own: one call with a pulse count and an interval  *)
(* drawn from bounded sets, the interval zero and negative included.  The  *)
(* call leaves its result in exact arithmetic and in single precision.     *)

MaxFlowPulses == 24
MaxFlowSeconds == 3

FlowPulses == (0 .. MaxFlowPulses) \cup {K_FACTOR}
FlowSeconds == (-1) .. MaxFlowSeconds

\* the arguments of a call and, so far, no result
FlowCall(pulses, seconds_passed) ==
    [pulses |-> pulses, seconds_passed |-> seconds_passed,
     flow_rate_lpm |-> <<0, 1>>, liters_added |-> <<0, 1>>,
     single |-> [flow_rate_lpm |-> <<0, 0>>, liters_added |-> <<0, 0>>]]

calculate_flow_call ==
    /\ pc = "call"
    /\ LET r == calculate_flow(loc.pulses, loc.seconds_passed)
       IN  loc' = [loc EXCEPT !.flow_rate_lpm = r.flow_rate_lpm,
                              !.liters_added = r.liters_added,
                              !.single = calculate_flow_single(
                                             loc.pulses, loc.seconds_passed)]
    /\ pc' = "return"
    /\ UNCHANGED <<now, t_boot, ctl, pulses_total, lock, flow_liters_total,
                   conn_handle, last_second, last_save_time, last_notify_time,
                   command, response, pre, fires, session, edges, flash,
                   remote>>

InitFlow ==
    \E pulses \in FlowPulses, seconds_passed \in FlowSeconds,
       total \in InitialTotals :
        /\ t_boot = 0 /\ now = 0
        /\ ctl = Controller(FLOW_STOP_TIMEOUT,
                            [weekday |-> DEFAULT_WEEKDAY,
                             weekend |-> DEFAULT_WEEKEND])
        /\ pulses_total = 0
        /\ lock = "free"
        /\ flow_liters_total = total
        /\ conn_handle = "None"
        /\ last_second = -1
        /\ last_save_time = 0
        /\ last_notify_time = 0
        /\ command = <<>> /\ response = "" /\ pre = <<>>
        /\ pc = "call"
        /\ loc = FlowCall(pulses, seconds_passed)
        /\ fires = <<>>
        /\ session = NoSession
        /\ edges = 0
        /\ flash = Flash([kind |-> "str", n |-> 1])
        /\ remote = [version |-> [kind |-> "str", n |-> 1],
                     files |-> <<main_file>>]

NextFlow == calculate_flow_call

SpecFlow == InitFlow /\ [][NextFlow]_vars

-----------------------------------------------------------------------------
(* The boot: boot.py from a reset to the start of main.py, with no         *)
(* version.json or release 1 or 2 installed, the repository at release 1   *)
(* or 2 listing main.py with or without a leading slash, and Wi-Fi and     *)
(* every download succeeding or failing.  The controller's variables stay  *)
(* as they are constructed.                                                *)

InitBoot ==
    \E local \in Versions \cup {NoVersion}, version \in Versions,
       files \in FileLists :
        /\ flash = Flash(local)
        /\ remote = [version |-> version, files |-> files]
        /\ t_boot = 0 /\ now = 0
        /\ ctl = Controller(FLOW_STOP_TIMEOUT,
                            [weekday |-> DEFAULT_WEEKDAY,
                             weekend |-> DEFAULT_WEEKEND])
        /\ pulses_total = 0
        /\ lock = "free"
        /\ flow_liters_total = <<0, 1>>
        /\ conn_handle = "None"
        /\ last_second = -1
        /\ last_save_time = 0
        /\ last_notify_time = 0
        /\ command = <<>> /\ response = "" /\ pre = <<>>
        /\ pc = "boot"
        /\ loc = NoBootLoc
        /\ fires = <<>>
        /\ session = NoSession
        /\ edges = 0

NextBoot ==
    \/ boot_connect_to_wifi
    \/ ota_check_for_updates
    \/ ota_download_updates
    \/ ota_download_file
    \/ ota_download_failed
    \/ ota_install_updates
    \/ ota_install_file
    \/ ota_install_reset
    \/ start_main
    \/ power_on

SpecBoot == InitBoot /\ [][NextBoot]_vars

---------------------------------------------------------------------------
(* The periodic notification: the pass of SpecExc, a central connecting    *)
(* and disconnecting at any moment, the loop held up for a minute.         *)

InitNotify ==
    InitAt(EpochOf(2, 6, 59, 58),
           Controller(2, [weekday |-> DEFAULT_WEEKDAY,
                          weekend |-> DEFAULT_WEEKEND]))

NextNotify ==
    \/ clock_second
    \/ clock_minute
    \/ ble_connect
    \/ ble_disconnect
    \/ ble_write_exc
    \/ ble_return
    \/ l_exception
    \/ LoopStep

SpecNotify == InitNotify /\ [][NextNotify]_vars

---------------------------------------------------------------------------
(* Properties *)

\* a step in which a loop pass ran its once-per-second body
TickStep == last_second' # last_second

\* the pulses the pass is about to drain amount to no flow
NoFlowPending ==
    RatLess(calculate_flow(pulses_total, 1).flow_rate_lpm, <<1, 100>>)

\* the table the specification selects for a weekday number
TableFor(c, wd) == IF wd \in 0..4 THEN c.weekday_schedule ELSE c.weekend_schedule
Entries(table) == { table[i] : i \in 1..Len(table) }

\* C1: over every sequence of VALVE / MOTOR requests (and loop passes), the
\* valve and the motor are never both on between two calls.
C1_NeverBothOn == ~(ctl.valve_on /\ ctl.motor_on)

\* a motor request is granted after the Scheduler had opened the valve and
\* the valve was closed again
C1_Witness ==
    /\ command = <<"MOTOR", "ON">>
    /\ ctl.motor_on /\ ~ctl.valve_on
    /\ fires # <<>>

\* C2: with the BLE handler running between any two statements of a loop
\* pass, the valve and the motor are never both on, flags or pins.
C2_NeverBothOnUnderPreemption ==
    /\ ~(ctl.valve_on /\ ctl.motor_on)
    /\ ~(ctl.valve_pin = 1 /\ ctl.motor_pin = 1)

\* C3: set_motor(True) with the valve open leaves the motor off and the
\* valve, flag and pin, as it was: in every reachable state, and in the
\* MOTOR ON command that the handler has just run.
C3_MotorOnRejectedWhileValveOpen ==
    /\ ctl.valve_on =>
         LET c == set_motor(ctl, TRUE)
         IN  /\ ~c.motor_on /\ c.motor_pin = 0
             /\ c.valve_on = ctl.valve_on /\ c.valve_pin = ctl.valve_pin
    /\ (command = <<"MOTOR", "ON">> /\ pre.valve_on) =>
         /\ ~ctl.motor_on /\ ctl.motor_pin = 0
         /\ ctl.valve_on = pre.valve_on /\ ctl.valve_pin = pre.valve_pin

C3_Witness ==
    /\ command = <<"MOTOR", "ON">>
    /\ pre.valve_on /\ pre.valve_pin = 1
    /\ ctl.valve_on /\ ~ctl.motor_on

\* C4: set_valve(True) with the motor on returns with the motor off and the
\* valve open: in every reachable state, and in the VALVE ON command that
\* the handler has just run.
C4_ValveOnStopsMotor ==
    /\ ctl.motor_on =>
         LET c == set_valve(ctl, TRUE)
         IN  ~c.motor_on /\ c.valve_on
    /\ (command = <<"VALVE", "ON">> /\ pre.motor_on) =>
         (~ctl.motor_on /\ ctl.valve_on)

C4_Witness ==
    /\ command = <<"VALVE", "ON">>
    /\ pre.motor_on /\ ~pre.valve_on
    /\ ctl.valve_on /\ ~ctl.motor_on

\* C5: a MOTOR ON command received while the valve is open is answered with
\* a failure that is neither "OK" nor the generic error.
C5_MotorOnWhileOpenAnsweredWithRejection ==
    (command = <<"MOTOR", "ON">> /\ pre.valve_on) =>
        /\ response # "OK"
        /\ response # "ERR: Comando desconocido o formato incorrecto"

\* C6: check_scheduled_run is true exactly when the second is 0, the valve
\* is closed and [hour, minute] is an entry of the table of the day (the
\* weekday table Monday to Friday, the weekend table Saturday and Sunday):
\* for a range of times, every weekday number, the tables in use and either
\* position of the valve; and the pass that has just run at the clock's time
\* fired exactly in that case.
C6_ScheduledRunIff ==
    /\ \A h \in {6, 7, 8, 12}, m \in {0, 1, 59}, s \in {0, 1, 59}, wd \in 0..6,
          v \in BOOLEAN :
           check_scheduled_run([ctl EXCEPT !.valve_on = v], h, m, s, wd)
               <=> (s = 0 /\ ~v /\ <<h, m>> \in Entries(TableFor(ctl, wd)))
    /\ last_second # -1 =>
         LET t == get_current_time(now)
         IN  fires # <<>>
               <=> /\ t.second = 0
                   /\ session.by # "cmd"
                   /\ <<t.hour, t.minute>> \in Entries(TableFor(ctl, t.weekday))

\* the Scheduler has just fired on a Saturday for an entry that only the
\* weekend table holds
C6_Witness ==
    /\ fires = <<now>>
    /\ ctl.valve_on /\ ctl.scheduled_run_active
    /\ LET t == get_current_time(now)
       IN  /\ t.weekday = 5
           /\ <<t.hour, t.minute>> \in Entries(ctl.weekend_schedule)
           /\ <<t.hour, t.minute>> \notin Entries(ctl.weekday_schedule)

\* C7: the Scheduler opens the valve at most once in any one minute of the
\* clock.
C7_AtMostOncePerMinute ==
    \A i, j \in 1..Len(fires) :
        i < j => (fires[i] \div 60) # (fires[j] \div 60)

\* the Scheduler fired, the valve was closed again within the minute, and a
\* later pass of the same minute has run
C7_Witness ==
    /\ Len(fires) = 1
    /\ ~ctl.valve_on
    /\ fires[1] < now /\ (fires[1] \div 60) = (now \div 60)
    /\ last_second = get_current_time(now).second
    /\ command = <<>>

\* C8: the Scheduler opens the valve only in a pass that reads second 0 of
\* a minute that the table of the day holds: a slot whose second 0 no pass
\* saw is not made up for later.
C8_NoCatchUp ==
    [][Len(fires') > Len(fires) =>
          LET t == get_current_time(now')
          IN  /\ t.second = 0
              /\ <<t.hour, t.minute>> \in Entries(TableFor(ctl, t.weekday))
              /\ fires'[Len(fires')] = now']_vars

\* the loop was held up from 6:59:58/59 to 7:00:58/59, so no pass saw
\* 7:00:00; the pass at 7:00:59 has run and the valve is closed
C8_Witness ==
    /\ now = t_boot + 61
    /\ last_second = 59
    /\ LET t == get_current_time(now)
       IN  <<t.hour, t.minute>> \in Entries(TableFor(ctl, t.weekday))
    /\ fires = <<>>
    /\ ~ctl.valve_on
    /\ session.by = "none"

\* a statement of the loop pass that clears the flag of an open valve
LoopCloses ==
    pc = "sv_flag" /\ pc' = "sv_sra" /\ ctl.valve_on /\ ~ctl'.valve_on

\* C9: the loop never closes a valve that a command opened: whenever a pass
\* clears the flag of an open valve, the Scheduler had opened that session.
\* Checked with the BLE handler running between the statements of a pass.
C9_LoopNeverClosesCommandedValve ==
    [][LoopCloses => session.by = "sched"]_vars

\* The same with every pass and every handler run as one step: a pass
\* closes the valve only in a session that the Scheduler opened and that is
\* still marked scheduled_run_active.
LoopClosesOnlyScheduledRunsBetweenCommands ==
    [][(TickStep /\ ctl.valve_on /\ ~ctl'.valve_on) =>
          (ctl.scheduled_run_active /\ session.by = "sched")]_vars

\* the no-flow pass of a scheduled run
StallPass == TickStep /\ NoFlowPending /\ ctl.valve_on /\ ctl.scheduled_run_active

\* C10 as stated: with stall_since the time of the first no-flow pass, a
\* no-flow pass of a scheduled run closes the valve exactly when
\* now - stall_since >= timeout, whatever the timeout (0 included).
C10_ClosesWhenTimeoutReached ==
    [][StallPass =>
          LET stall_since == IF ctl.flow_stop_timer_start = 0 THEN now
                             ELSE ctl.flow_stop_timer_start
          IN  ~ctl'.valve_on <=> (now - stall_since >= ctl.flow_stop_timeout)]_vars

\* C10 amended: the pass that starts the timer never closes; every later
\* no-flow pass closes the valve exactly when now - stall_since >= timeout.
C10_ClosesWhenTimeoutReachedAfterStart ==
    [][StallPass =>
          IF ctl.flow_stop_timer_start = 0
          THEN ctl'.valve_on /\ ctl'.flow_stop_timer_start = now
          ELSE /\ ~ctl'.valve_on <=>
                     (now - ctl.flow_stop_timer_start >= ctl.flow_stop_timeout)
               /\ ctl'.valve_on =>
                     ctl'.flow_stop_timer_start = ctl.flow_stop_timer_start]_vars

\* a scheduled run that never saw flow has been closed by the loop, the
\* configured timeout after the pass that opened it and started the timer
C10_Witness ==
    /\ Len(fires) = 1
    /\ edges = 0
    /\ ~ctl.valve_on /\ ctl.flow_stop_timer_start = 0
    /\ ctl.flow_stop_timeout > 0
    /\ now = fires[1] + ctl.flow_stop_timeout
    /\ last_second = get_current_time(now).second
    /\ command = <<>>

\* C11: in a scheduled run, a pass that reads flow leaves the valve open and
\* the stall timer at zero, and a pass that reads no flow closes the valve
\* only when a timer started by an earlier no-flow pass has run for the
\* whole timeout: the countdown starts again after every reading of flow.
C11_FlowReadingResetsCountdown ==
    [][(TickStep /\ ctl.valve_on /\ ctl.scheduled_run_active) =>
          IF NoFlowPending
          THEN ~ctl'.valve_on =>
                  /\ ctl.flow_stop_timer_start # 0
                  /\ now - ctl.flow_stop_timer_start >= ctl.flow_stop_timeout
          ELSE /\ ctl'.valve_on /\ ctl'.scheduled_run_active
               /\ ctl'.flow_stop_timer_start = 0]_vars

\* timeout 5, the Scheduler fired at second 0, no flow at seconds 0 to 2, a
\* pulse read at second 3, no flow at seconds 4 and 5: the valve is still
\* open at second 5, the timer counting from second 4
C11_Witness ==
    /\ Len(fires) = 1
    /\ ctl.flow_stop_timeout = FLOW_STOP_TIMEOUT
    /\ now = fires[1] + FLOW_STOP_TIMEOUT
    /\ last_second = get_current_time(now).second
    /\ edges = 1 /\ pulses_total = 0
    /\ ctl.valve_on /\ ctl.scheduled_run_active
    /\ ctl.flow_stop_timer_start = fires[1] + 4
    /\ session.by = "sched"
    /\ command = <<>>

\* C12: between operations the stall timer is non-zero only while the valve
\* is open in a scheduled run; it is zero whenever the valve is closed.
C12_TimerOnlyInScheduledRun ==
    ctl.flow_stop_timer_start # 0 =>
        (ctl.valve_on /\ ctl.scheduled_run_active)

C14_ClosingClosedValveChangesNothing ==
    [][(command = <<>> /\ command' = <<"VALVE", "OFF">> /\ ~ctl.valve_on) =>
          (ctl' = ctl /\ flow_liters_total' = flow_liters_total)]_vars

\* VALVE OFF has just been run on a closed valve with the motor on and
\* liters on the counter
C14_Witness ==
    /\ command = <<"VALVE", "OFF">>
    /\ ~pre.valve_on /\ pre.motor_on
    /\ ctl = pre
    /\ flow_liters_total # <<0, 1>>

\* C15: the status snapshot taken in the state a RESET_FLOW command leaves
\* shows a total of 0.00, whatever the total was and whether or not the
\* log file could be written.
C15_ResetThenStatusShowsZero ==
    command = <<"RESET_FLOW">> =>
        /\ notify_status(ctl, flow_liters_total, get_current_time(now)).liters = 0
        /\ flow_liters_total = <<0, 1>>

\* RESET_FLOW has just run on a total that was stored non-zero and that a
\* pass had added pulses to
C15_Witness ==
    /\ command = <<"RESET_FLOW">>
    /\ response = "OK: FLOW_TOTAL reset to 0.0"
    /\ last_second # -1 /\ pulses_total = 0
    /\ fires = <<>>
    /\ flow_liters_total = <<0, 1>>

\* C16: the total of liters decreases only in a RESET_FLOW command, and a
\* pass adds to it exactly the pulses it drains divided by K_FACTOR.
C16_TotalGrowsByDrainedPulses ==
    [][/\ RatLess(flow_liters_total', flow_liters_total) =>
            (command = <<>> /\ command' = <<"RESET_FLOW">>)
       /\ TickStep =>
            flow_liters_total'[1] * (flow_liters_total[2] * K_FACTOR)
              = (flow_liters_total[1] * K_FACTOR
                     + pulses_total * flow_liters_total[2])
                * flow_liters_total'[2]]_vars

\* a pass has added three pulses to a stored total of 12.34 liters
C16_Witness ==
    /\ flow_liters_total = RatAdd(<<617, 50>>, <<MaxPulses, K_FACTOR>>)
    /\ pulses_total = 0
    /\ last_second # -1

\* C17: every edge the sensor delivers is counted, so that it shows in one
\* drain: the interrupt handler adds one to the counter for each edge, also
\* for an edge that arrives while read_and_reset_pulses is under way.
C17_EveryEdgeIsCounted ==
    [][edges' = edges + 1 => pulses_total' = pulses_total + 1]_vars

\* the argument holds an entry that is not two integers, or whose hour is
\* outside 0..23 or whose minute is outside 0..59
BadEntries(new_schedule) ==
    \/ new_schedule.json # "list"
    \/ \E i \in 1..Len(new_schedule.entries) :
          LET e == new_schedule.entries[i]
          IN  \/ ~e.ints
              \/ Len(e.items) # 2
              \/ e.items[1] \notin 0..23
              \/ e.items[2] \notin 0..59

SetScheduleErrors ==
    { "ERR: Tipo de horario invalido. Use WEEKDAY o WEEKEND.",
      "ERR: JSON invalido en el horario.",
      "ERR: Formato JSON de horario invalido. Use [[H, M], [H, M]].",
      "ERR: Fallo al guardar en config.json.",
      "ERR: Comando desconocido o formato incorrecto" }

\* C18: a SET_SCHEDULE command whose argument holds a malformed entry, an
\* hour outside 0..23 or a minute outside 0..59 is answered with an error
\* and changes neither table in use, nor the tables of config.json.
C18_BadScheduleRejected ==
    (Len(command) = 3 /\ command[1] = "SET_SCHEDULE" /\ BadEntries(command[3])) =>
        /\ response \in SetScheduleErrors
        /\ ctl.weekday_schedule = pre.weekday_schedule
        /\ ctl.weekend_schedule = pre.weekend_schedule
        /\ ctl.file = pre.file

\* C19: a VALVE or MOTOR command whose argument is neither ON nor OFF is
\* answered with a failure and changes no actuator; it is not run as a
\* valid request and answered "OK".
C19_InvalidArgumentRejected ==
    (Len(command) = 2 /\ command[1] \in {"VALVE", "MOTOR"}
                      /\ command[2] \notin {"ON", "OFF"}) =>
        /\ response # "OK"
        /\ ctl = pre

\* C20: an exception raised inside a pass does not end the loop: the valve
\* and motor flags are what they were when it was raised, they agree with
\* the pins that set_valve and set_motor last drove, and a later pass runs
\* its body.
C20_LoopSurvivesException ==
    /\ [][(pc # "except" /\ pc' = "except") =>
             (ctl'.valve_on = ctl.valve_on /\ ctl'.motor_on = ctl.motor_on)]_vars
    /\ [](pc = "except" =>
             /\ ctl.valve_on <=> (ctl.valve_pin = 1)
             /\ ctl.motor_on <=> (ctl.motor_pin = 1))
    /\ (pc = "except") ~> (pc = "drain_read")

\* an exception has been caught in the pass in which the Scheduler opened
\* the valve
C20_Witness ==
    /\ pc = "except"
    /\ ctl.valve_on /\ ctl.valve_pin = 1
    /\ fires = <<now>>

\* the clock of the exploration has the seconds left that the countdown
\* takes: the one running, or the one that the next pass to see no flow
\* starts (at most two seconds from now)
ClockHasRoom ==
    LET wait == IF ctl.flow_stop_timeout = 0 THEN 1 ELSE ctl.flow_stop_timeout
        stall_since == IF ctl.flow_stop_timer_start # 0
                       THEN ctl.flow_stop_timer_start
                       ELSE now + 2
    IN  (stall_since - t_boot) + wait <= MaxSeconds

\* C21: with the loop and the clock kept going, a scheduled run in which
\* every later pass reads no flow (no pulse is ever waiting again) ends with
\* the valve closed.
C21_NoFlowRunEventuallyClosed ==
    (/\ ctl.valve_on /\ ctl.scheduled_run_active
     /\ ClockHasRoom
     /\ [](pulses_total = 0))
        ~> ~ctl.valve_on

\* a scheduled run with timeout 2 saw a pulse, so that its countdown started
\* again, and the loop has closed it
C21_Witness ==
    /\ Len(fires) = 1
    /\ edges = 1 /\ pulses_total = 0
    /\ ctl.flow_stop_timeout = 2
    /\ ~ctl.valve_on /\ ~ctl.motor_on
    /\ now > fires[1] + 2
    /\ last_second = get_current_time(now).second
    /\ command = <<>>
    /\ ctl.flow_stop_timer_start = 0

\* C22: a loop pass never turns off a motor that a command turned on (only
\* commands turn the motor on) and never closes a valve that a command
\* opened: a manual session ends by a command only.
C22_ManualSessionEndsOnlyByCommand ==
    [][TickStep =>
          /\ ctl.motor_on => ctl'.motor_on
          /\ (ctl.valve_on /\ session.by = "cmd") => ctl'.valve_on]_vars

\* the valve part alone: a pass leaves open a valve that a command opened
PassKeepsCommandedValveOpen ==
    [][(TickStep /\ ctl.valve_on /\ session.by = "cmd") =>
          (ctl'.valve_on /\ ~ctl'.scheduled_run_active
             /\ session'.by = "cmd")]_vars

\* C23: when a VALVE ON command has run set_valve(True), whether the valve
\* was open or closed, the stall timer is zero; and so it is after the pass
\* in which the Scheduler opened the valve has marked the run.
C23_OpeningClearsStallTimer ==
    /\ command = <<"VALVE", "ON">> => ctl.flow_stop_timer_start = 0
    /\ LET c == [ctl EXCEPT !.valve_on = FALSE]
           t == get_current_time(now)
       IN  check_scheduled_run(c, t.hour, t.minute, t.second, t.weekday) =>
              main_loop_schedule(c, t).flow_stop_timer_start = 0

\* C24: a RESET_FLOW command handled between the read and the write of
\* flow_liters_total += liters_added is not lost: the total that the pass
\* then writes is at most the liters_added of that pass.  (The total the
\* pass read was not zero and the total is zero when it writes: only a
\* RESET_FLOW in between does that.)
C24_ResetDuringAccumulationNotLost ==
    [][(/\ pc = "accum_write" /\ pc' = "save"
        /\ loc.total # <<0, 1>>
        /\ flow_liters_total = <<0, 1>>) =>
          ~RatLess(loc.liters_added, flow_liters_total')]_vars

\* C25: a SET_SCHEDULE command answered with an error changes neither table
\* in use, and a later successful replacement changes only the table it
\* names: the table of a failed replacement is never taken into use.
C25_FailedReplacementNeverApplied ==
    [][(command = <<>> /\ command' # <<>> /\ command'[1] = "SET_SCHEDULE") =>
          IF response' \in SetScheduleErrors
          THEN /\ ctl'.weekday_schedule = ctl.weekday_schedule
               /\ ctl'.weekend_schedule = ctl.weekend_schedule
          ELSE /\ command'[2] = "WEEKDAY" =>
                     ctl'.weekend_schedule = ctl.weekend_schedule
               /\ command'[2] = "WEEKEND" =>
                     ctl'.weekday_schedule = ctl.weekday_schedule]_vars

\* the tables that were ever in use or asked for as a whole
WholeTables ==
    { DEFAULT_WEEKDAY, DEFAULT_WEEKEND, <<>> }
        \cup { Decoded(parts[3]) : parts \in ReplaceCommands }

\* C26: with SET_SCHEDULE commands handled between the statements of
\* check_scheduled_run, the list that the membership test goes through is a
\* whole table, one that was in use or that a command put in place, and
\* never holds entries of two of them; when the test starts it is the table
\* in use or the one that a command has replaced since it was read.
C26_SchedulerSeesWholeTable ==
    /\ loc.target_schedule \in WholeTables
    /\ (pc = "sched_member" /\ loc.target_schedule # ctl.weekday_schedule) =>
           ctl.weekday_schedule \in
               { Decoded(parts[3]) : parts \in ReplaceCommands }

\* at 7:00:00 the Scheduler has tested the old weekday table, which a command
\* replaced between its reading and the test by one without 7:00
C26_Witness ==
    /\ pc = "sv_test"
    /\ loc.target_schedule = DEFAULT_WEEKDAY
    /\ ctl.weekday_schedule = << <<7, 1>> >>
    /\ ctl.file.weekday = << <<7, 1>> >>
    /\ fires = <<now>>
    /\ command = <<>>

\* C27: after a SET_SCHEDULE command answered with its success message, the
\* table it names is exactly the list of its argument and the other table
\* is what it was before the command.
C27_SuccessfulReplacementIsWholesale ==
    (/\ Len(command) = 3 /\ command[1] = "SET_SCHEDULE"
     /\ response = "OK: Horario " \o command[2] \o " actualizado y guardado.") =>
        IF command[2] = "WEEKDAY"
        THEN /\ ctl.weekday_schedule = Decoded(command[3])
             /\ ctl.weekend_schedule = pre.weekend_schedule
        ELSE /\ ctl.weekend_schedule = Decoded(command[3])
             /\ ctl.weekday_schedule = pre.weekday_schedule

\* the first half alone: the table named is exactly the argument
ReplacedTableIsTheArgument ==
    (/\ Len(command) = 3 /\ command[1] = "SET_SCHEDULE"
     /\ response = "OK: Horario " \o command[2] \o " actualizado y guardado.") =>
        Decoded(command[3]) = IF command[2] = "WEEKDAY" THEN ctl.weekday_schedule
                              ELSE ctl.weekend_schedule

\* the second half where no failed replacement is waiting in the dictionary
\* (C25): the other table is what it was
ReplacementKeepsOtherTableAfterNoFailedSave ==
    (/\ Len(command) = 3 /\ command[1] = "SET_SCHEDULE"
     /\ response = "OK: Horario " \o command[2] \o " actualizado y guardado."
     /\ pre.config.weekday = pre.weekday_schedule
     /\ pre.config.weekend = pre.weekend_schedule) =>
        IF command[2] = "WEEKDAY"
        THEN ctl.weekend_schedule = pre.weekend_schedule
        ELSE ctl.weekday_schedule = pre.weekday_schedule

\* C28: between passes, and after an exception was caught in a pass, a valve
\* that the Scheduler opened is marked scheduled_run_active, so that the
\* later passes apply the no-flow shutoff to it.
C28_SchedulerOpenedValveStaysGuarded ==
    (pc \in {"loop", "except"} /\ ctl.valve_on /\ session.by = "sched") =>
        ctl.scheduled_run_active

\* the same where every pass runs to its end
SchedulerOpenedValveIsGuardedBetweenPasses ==
    (ctl.valve_on /\ session.by = "sched") => ctl.scheduled_run_active

\* C29: the body of the loop runs only in a pass that reads a second other
\* than the one of the last body, and then in the order drain, total,
\* Scheduler, shutoff: the pulses waiting are drained and added to the
\* total, and a valve that the Scheduler opens in the pass has gone through
\* the shutoff of the same pass with the flow of that drain (the timer
\* started at the pass's timestamp when the drain read no flow, zero when it
\* read flow).  Nothing is drained and the Scheduler opens nothing outside
\* such a pass.
C29_PassOrder ==
    [][/\ TickStep =>
            /\ last_second # get_current_time(now).second
            /\ last_second' = get_current_time(now).second
            /\ pulses_total' = 0
            /\ flow_liters_total' =
                   RatAdd(flow_liters_total, Rat(pulses_total, K_FACTOR))
            /\ Len(fires') > Len(fires) =>
                   /\ ctl'.valve_on /\ ctl'.scheduled_run_active
                   /\ ctl'.flow_stop_timer_start =
                          IF NoFlowPending THEN now ELSE 0
       /\ (Len(fires') > Len(fires) \/ pulses_total' < pulses_total) =>
            TickStep]_vars

\* the pass of 7:00:00 has drained pulses and opened the valve: its shutoff
\* saw the flow and left the timer at zero
C29_Witness ==
    /\ fires = <<now>>
    /\ get_current_time(now).second = 0
    /\ last_second = 0
    /\ pulses_total = 0
    /\ edges = 1
    /\ RatLess(<<617, 50>>, flow_liters_total)
    /\ ctl.valve_on /\ ctl.scheduled_run_active
    /\ ctl.flow_stop_timer_start = 0

\* what notify_status would send from the present state
StatusSnapshot == notify_status(ctl, flow_liters_total, get_current_time(now))

\* the snapshot never shows a scheduled run with the valve closed
SnapshotNeverShowsRunWithClosedValve ==
    command = <<>> => ~(StatusSnapshot.scheduled = 1 /\ StatusSnapshot.valve = 0)

\* the snapshot never shows valve and motor both on
SnapshotNeverShowsBothOn ==
    command = <<>> => ~(StatusSnapshot.valve = 1 /\ StatusSnapshot.motor = 1)

\* C30: wherever the BLE handler can be entered between two statements of a
\* loop pass, the status message it would send shows neither valve and motor
\* both on nor a scheduled run with the valve closed.
C30_StatusSnapshotConsistent ==
    command = <<>> =>
        /\ ~(StatusSnapshot.valve = 1 /\ StatusSnapshot.motor = 1)
        /\ ~(StatusSnapshot.scheduled = 1 /\ StatusSnapshot.valve = 0)

\* C31: the loop sends its status notification (main_loop's
\* last_notify_time moves) only with a central connected and at least
\* NOTIFY_INTERVAL seconds after the one before (or the entry of the loop);
\* the statement that sends it, and an exception raised in a pass, change no
\* actuator, table, timer, pulse count or total.
C31_PeriodicStatusThrottled ==
    [][/\ last_notify_time' # last_notify_time =>
            /\ conn_handle # "None"
            /\ pc = "notify"
            /\ last_notify_time' = loc.current_timestamp
            /\ last_notify_time' - last_notify_time >= NOTIFY_INTERVAL
       /\ ((pc = "notify" /\ pc' # pc) \/ (pc # "except" /\ pc' = "except")) =>
            /\ ctl' = ctl
            /\ flow_liters_total' = flow_liters_total
            /\ pulses_total' = pulses_total]_vars

\* a second notification has gone out after the loop was held up a minute,
\* during a run that the Scheduler opened
C31_Witness ==
    /\ pc = "loop"
    /\ conn_handle # "None"
    /\ last_notify_time = now
    /\ now >= t_boot + 60 + NOTIFY_INTERVAL
    /\ fires # <<>>

\* C32: calculate_flow returns a rate of zero exactly when there are no
\* pulses or the interval is not positive; for zero pulses it returns zero
\* liters and a zero rate whatever the interval; and the call changes
\* nothing of the sensor or the controller.
C32_ZeroFlowCases ==
    [][pc' = "return" =>
          /\ (loc'.flow_rate_lpm[1] = 0) <=>
                 (loc.pulses = 0 \/ loc.seconds_passed <= 0)
          /\ loc.pulses = 0 =>
                 /\ loc'.liters_added = <<0, 1>>
                 /\ loc'.flow_rate_lpm = <<0, 1>>
          /\ loc'.pulses = loc.pulses
          /\ loc'.seconds_passed = loc.seconds_passed
          /\ pulses_total' = pulses_total
          /\ flow_liters_total' = flow_liters_total
          /\ lock' = lock
          /\ ctl' = ctl]_vars

\* a call with pulses and no interval has returned a zero rate
C32_Witness ==
    /\ pc = "return"
    /\ loc.pulses > 0
    /\ loc.seconds_passed <= 0
    /\ loc.flow_rate_lpm = <<0, 1>>
    /\ loc.liters_added # <<0, 1>>

\* for pulses and an interval above zero the result, taken in exact
\* arithmetic, is pulses / k_factor liters and
\* (pulses / seconds_passed) * (60 / k_factor) liters per minute
FlowFormulaInExactArithmetic ==
    (pc = "return" /\ loc.pulses > 0 /\ loc.seconds_passed > 0) =>
        /\ loc.liters_added = Rat(loc.pulses, K_FACTOR)
        /\ loc.flow_rate_lpm =
               Rat(loc.pulses * 60, loc.seconds_passed * K_FACTOR)

\* the firmware's float for the liters of 450 pulses is 1.0
ExampleLitersIsOne ==
    (pc = "return" /\ loc.pulses = K_FACTOR /\ loc.seconds_passed = 1) =>
        F32Is(loc.single.liters_added, 1)

\* C33: for pulses > 0 and seconds_passed > 0 calculate_flow returns
\* liters_added = pulses / k_factor and
\* flow_rate_lpm = (pulses / seconds_passed) * (60 / k_factor); the call
\* with 450 pulses, k_factor 450.0 and one second returns liters_added 1.0
\* and flow_rate_lpm 60.0.
C33_FlowFormula ==
    /\ FlowFormulaInExactArithmetic
    /\ (pc = "return" /\ loc.pulses = K_FACTOR /\ loc.seconds_passed = 1) =>
           /\ F32Is(loc.single.liters_added, 1)
           /\ F32Is(loc.single.flow_rate_lpm, 60)

\* C34: the sensor's interrupt handler never blocks.  An edge is handled at
\* any point of the pass, also while read_and_reset_pulses holds the lock:
\* the handler returns without waiting, leaving the lock and the position
\* of the pass as they were.  The lock is held only inside
\* read_and_reset_pulses, whose release can always be taken, so the handler
\* and the loop never wait for each other.
C34_IrqHandlerNeverBlocks ==
    /\ []((command = <<>> /\ edges < MaxEdges) => ENABLED irq_handler)
    /\ [](lock # "free" => pc = "drain_reset")
    /\ []((pc = "drain_reset" /\ command = <<>>) => ENABLED l_drain_reset)
    /\ [][edges' # edges => (lock' = lock /\ pc' = pc /\ loc' = loc)]_vars

\* an edge came while read_and_reset_pulses held the lock (it was not
\* counted), the handler returned and the lock has been released
C34_Witness ==
    /\ edges = 1
    /\ loc.pulses = 0
    /\ pulses_total = 0
    /\ pc = "accum_read"
    /\ lock = "free"

\* the Idle state: both actuators off, no scheduled run, no stall timer
\* running, no pulse counted
IdleState ==
    /\ ~ctl.valve_on
    /\ ~ctl.motor_on
    /\ ctl.valve_pin = 0
    /\ ctl.motor_pin = 0
    /\ ~ctl.scheduled_run_active
    /\ ctl.flow_stop_timer_start = 0
    /\ pulses_total = 0

\* C35: the controller starts in the Idle state: after construction valve_on
\* and motor_on are false, both pins are low, scheduled_run_active is false,
\* the stall timer is zero and the pulse counter is zero; and it is not the
\* passing of time alone that takes it out of this state.
C35_StartsIdle ==
    /\ IdleState
    /\ [][(IdleState /\ UNCHANGED <<pc, command, edges, last_second>>)
              => IdleState']_vars

\* the controller as constructed, before the first pass
C35_Witness ==
    /\ IdleState
    /\ last_second = -1
    /\ now = t_boot
    /\ ctl = Controller(ctl.flow_stop_timeout, ctl.config)
    /\ pulses_total = 0
    /\ ctl.flow_stop_timeout = 2

\* the pin's level is the one its flag stands for
PinIs(pin, flag) == pin = IF flag THEN 1 ELSE 0

\* C36: with set_valve and set_motor run without preemption, at no
\* statement inside them (and nowhere else) are both pins high, the motor's
\* pin being driven low before the valve's pin is driven high; and when
\* either returns, each pin is at the level of its flag: a pin differs from
\* its flag only between the two statements that write them.
C36_PinsInsideActuatorCalls ==
    /\ ~(ctl.valve_pin = 1 /\ ctl.motor_pin = 1)
    /\ pc # "sm_flag" => PinIs(ctl.motor_pin, ctl.motor_on)
    /\ pc # "sv_flag" => PinIs(ctl.valve_pin, ctl.valve_on)

\* set_valve(True), called by the scheduler with the motor running, has
\* driven the motor's pin low and not yet touched the valve's
C36_Witness ==
    /\ pc = "sm_flag"
    /\ loc.state
    /\ ctl.motor_on
    /\ ctl.motor_pin = 0
    /\ ctl.valve_pin = 0

\* C37: when install_updates resets the device (a newer release was found
\* and every download succeeded), the files files.json lists and
\* version.json are in the root under their own names with the content of
\* the new release, so that the next boot finds the local version equal to
\* the remote one, starts no update and goes on to main.py.
C37_InstallPlacesFilesBeforeReset ==
    [][(pc = "install_file" /\ pc' = "boot") =>
          /\ \A i \in DOMAIN remote.files :
                 /\ Exists(flash', NameIn(remote.files[i]))
                 /\ ReadFile(flash', NameIn(remote.files[i])) = remote.version
          /\ get_current_version(flash') = remote.version]_vars

\* a boot that has downloaded everything is not followed by another
\* download: 'update' + 'version.json' is written only by a download that
\* was complete
NoDownloadAfterCompleteDownload ==
    pc = "download" => ~Exists(flash, download_path(current_version_file))

\* install_updates is running
Installing == pc \in {"install", "install_file"}

\* boot.py's check_for_updates has returned; main.py is about to start
Returned == pc = "main"

\* what a failed boot leaves alone: install_updates is called only in a
\* boot in which nothing failed, main.py is written only by
\* install_updates, and main.py is there when boot.py is over
FailedCheckLeavesMainAlone ==
    /\ [](Installing => loc.failed = "")
    /\ [][ReadFile(flash', main_file) # ReadFile(flash, main_file)
              => (pc = "install_file" /\ loc.failed = "")]_vars
    /\ [](Exists(flash, main_file))

VersionCheckFailedReturnedTrue ==
    /\ Returned
    /\ loc.failed = "version"
    /\ loc.result = "True"

====
